---------------------------- MODULE Spec2Model ----------------------------
(***************************************************************************)
(* A model of the aggregation pipeline of data_scraper.py                  *)
(* (src/data_scraper/data_scraper.py): the manifest fetcher _get_packages, *)
(* the slice extractor _get_slices with its clone lock, the two task pools *)
(* of _get_packages_by_release and _get_slices_by_release, the static      *)
(* analysis pass _get_notes_by_release, the snapshot writer _write_db and  *)
(* the __main__ block around them.                                         *)
(*                                                                         *)
(* Seven specifications share the variables:                               *)
(*   SpecFetch     one call of _get_packages, request by request;          *)
(*   SpecBranches  one call of _ubuntu_branches_in_chisel_releases;        *)
(*   Spec          one run of the process, with failing commands and       *)
(*                 tasks, for --jobs 1 and for a pool;                     *)
(*   SpecMain      one run with --jobs 1, for every combination of the     *)
(*                 flags and of files at the output paths;                 *)
(*   SpecTwoRuns   two complete runs against the same repository and       *)
(*                 manifest state;                                         *)
(*   SpecPackages  one call of _get_packages_by_release over all the       *)
(*                 components and repos;                                   *)
(*   SpecSdf       the static analysis of one slice definition.            *)
(***************************************************************************)
EXTENDS Integers, Sequences, FiniteSets, TLC

VARIABLES
    \* ---- _get_packages (one call) ----
    gpc,            \* position in _get_packages
    garg,           \* its arguments: [release, component, repo]
    attempt,        \* the loop variable of `for attempt in range(1, 4)`
    response,       \* the local `response` (NoResponse = None)
    last_error,     \* the local `last_error` (NoError = None)
    reqlog,         \* the requests sent so far, with what each one gave
    gresult,        \* what the call returned or raised
    \* ---- one run of the pipeline (the __main__ block and main) ----
    pc,             \* position of the coordinating thread
    outcome,        \* "running", "ok" (exit status 0) or "failed" (non-zero)
    raised,         \* the exception that ended the run ("none" when none)
    jobs,           \* args.jobs
    compress,       \* args.compress
    force,          \* args.force
    debug,          \* args.debug
    remote_branches,    \* the lines `git branch --remote` prints in the clone
    version_to_release, \* _VERSION_TO_RELEASE, as init_distro_info builds it
    relOrder,       \* the order this process iterates the set `releases` in
    components,     \* _components of _get_packages_by_release (line 391)
    repos,          \* _repos of _get_packages_by_release (line 392)
    unpublished,    \* the releases every manifest of which is empty
    faults,         \* the failing commands and manifest fetches so far
    futP,           \* the futures of the manifest-fetch pool, in submission order
    package_listings,
    packages_by_release,
    futS,           \* the _get_slices calls (the pool's futures), in submission order
    lock,           \* holder of _CHISEL_RELEASES_CLONE_PATH_LOCK (0 = free)
    arrival,        \* the slice-extraction tasks in the order they finished
    repository,     \* the slices/ directory of each release branch, once read
    slices_by_release,
    notes_by_release,
    db,             \* the snapshot file at args.db_path
    compressed_db,  \* the file at args.compressed_db_path
    clone,          \* the directory at _CHISEL_RELEASES_CLONE_PATH
    worktree_dir,   \* the temporary directory of each _get_slices call
    worktree_add,   \* the exit of each call's `git worktree add`
    branches_result,    \* what _ubuntu_branches_in_chisel_releases gave
    called,         \* the stages of main invoked in this run
    \* ---- across runs ----
    runNo,          \* 1 for the first run, 2 for the second
    prev,           \* the first run's jobs and snapshot, when it completed
    \* ---- the static analysis of one slice definition ----
    sdf_pc,         \* position in lines 652-660 and, inside check_sdf, 620-635
    slice_text,     \* the text of the slice definition file
    slice_json,     \* what yaml.safe_load returned for it
    sdf_notes,      \* the local `notes` of check_sdf
    sdf_raised      \* the exception check_sdf raised ("none" when none)

fetchVars == <<gpc, garg, attempt, response, last_error, reqlog, gresult>>
inputVars == <<jobs, compress, force, debug, relOrder, remote_branches,
               version_to_release, components, repos, unpublished>>
poolPVars == <<futP, package_listings, packages_by_release>>
poolSVars == <<futS, lock, arrival, slices_by_release>>
runVars == <<pc, outcome, raised, faults, repository, notes_by_release, db, called>>
wtVars == <<worktree_dir, worktree_add>>
procVars == <<clone, wtVars, compressed_db, branches_result>>
pipeVars == <<inputVars, procVars, poolPVars, poolSVars, runVars, runNo, prev>>
sdfVars == <<sdf_pc, slice_text, slice_json, sdf_notes, sdf_raised>>
vars == <<fetchVars, pipeVars, sdfVars>>

-----------------------------------------------------------------------------
(***************************************************************************)
(* Program constants.                                                      *)
(***************************************************************************)

\* range(1, 4): the attempts of one _get_packages call.
MaxAttempts == 3

(***************************************************************************)
(* Bounds of the model.                                                    *)
(***************************************************************************)
\* The release branches of the repository are ubuntu-1 .. ubuntu-NumReleases.
NumReleases == 2
\* args.jobs ranges over 1..MaxJobs (--jobs -1, a pool of min(32, cpus + 4)
\* workers, behaves as a pool of that size).
MaxJobs == 2
\* At most this many git commands and manifest fetches fail in one run.
MaxFaults == 1

\* The longest list of remote branches _ubuntu_branches_in_chisel_releases is
\* applied to on its own (SpecBranches).
MaxBranches == 3

Releases == 1..NumReleases
\* _ALL_RELEASES: release 0 is in the distro-info catalog and has no branch.
ALL_RELEASES == 0..NumReleases
PackageNames == {"p", "q"}

\* COMPONENTS and REPOS as `sorted` returns them (lines 391-392).
AllComponents == <<"main", "multiverse", "restricted", "universe">>
AllRepos == <<"", "backports", "security", "updates">>

\* The two components and the two repos the specifications of a whole run
\* fetch (SpecPackages, of _get_packages_by_release alone, runs with all
\* four of each).
SortedComponents == <<"main", "universe">>
SortedRepos == <<"", "security">>

PrimaryHost == "archive.ubuntu.com"
FallbackHost == "old-releases.ubuntu.com"

\* The status codes a host answers with in the model.
StatusCodes == {200, 404, 500}

NoResponse == [host |-> "none", status_code |-> 0, content |-> <<>>]
NoError == [exc |-> "none", attempt |-> 0]

-----------------------------------------------------------------------------
(***************************************************************************)
(* Package.from_content_hunk and the stanza loop of _get_packages.         *)
(* A hunk is a record of the four fields read, "" for a field the stanza   *)
(* does not have; Section is kept as its "<component>/" prefix ("" for     *)
(* none) and the rest.                                                     *)
(***************************************************************************)
NoVersion == <<"", "">>
NoDescription == <<"", 0>>

Hunk(name, version, description, secprefix, section) ==
    [Package |-> name, Version |-> version, Description |-> description,
     SectionPrefix |-> secprefix, Section |-> section]

NoPackage == [name |-> "", version |-> NoVersion, release |-> 0,
              component |-> "", repo |-> "", description |-> NoDescription,
              section |-> <<"", "">>]

\* section.removeprefix(component + "/")
RemovePrefix(secprefix, section, component) ==
    IF secprefix = component THEN <<"", section>> ELSE <<secprefix, section>>

from_content_hunk(hunk, release, component, repo) ==
    IF hunk.Package = "" \/ hunk.Version = NoVersion
       \/ hunk.Description = NoDescription
       \/ (hunk.SectionPrefix = "" /\ hunk.Section = "")
    THEN NoPackage
    ELSE [name |-> hunk.Package, version |-> hunk.Version, release |-> release,
          component |-> component, repo |-> repo,
          description |-> hunk.Description,
          section |-> RemovePrefix(hunk.SectionPrefix, hunk.Section, component)]

\* The set built by the loop over split_content (lines 535-544).
ParsePackages(content, release, component, repo) ==
    { from_content_hunk(content[i], release, component, repo) :
        i \in { j \in 1..Len(content) :
                  from_content_hunk(content[j], release, component, repo)
                      # NoPackage } }

(***************************************************************************)
(* The manifest state: the body each host serves for a (release,           *)
(* component, repo) when it answers 200. The two hosts serve bodies that   *)
(* differ in the version, so that the origin of a parsed package shows.    *)
(***************************************************************************)
HostTag(host) == IF host = PrimaryHost THEN "a" ELSE "o"

ManifestBody(host, release, component, repo) ==
    IF release \in unpublished
    THEN << >>
    ELSE IF component = "multiverse" /\ repo = "backports"
    THEN << Hunk("q", <<"3", HostTag(host)>>, <<"desc-q", release>>,
                 "multiverse", "games") >>
    ELSE IF component = "main" /\ repo = ""
    THEN << Hunk("p", <<"1", HostTag(host)>>, <<"desc-p", release>>, "", "libs"),
            Hunk("", <<"9", HostTag(host)>>, NoDescription, "", "misc") >>
    ELSE IF component = "universe" /\ repo = "security"
    THEN << Hunk("p", <<"2", HostTag(host)>>, <<"desc-p", release>>,
                 "universe", "net") >>
    ELSE IF component = "universe" /\ repo = "" /\ release = 1
    THEN << Hunk("q", <<"1", HostTag(host)>>, <<"desc-q", release>>,
                 "universe", "utils") >>
    ELSE << >>

-----------------------------------------------------------------------------
(***************************************************************************)
(* _get_packages, one request at a time (lines 481-544).                   *)
(*   gpc = "primary"   about to send the request of line 503               *)
(*   gpc = "fallback"  the primary answered 404: about to send line 508    *)
(*   gpc = "after"     the loop is left: lines 524-544                     *)
(*   gpc = "done"      the call has returned or raised                     *)
(***************************************************************************)
Response(host, status) ==
    [host |-> host, status_code |-> status,
     content |-> IF status = 200
                 THEN ManifestBody(host, garg.release, garg.component, garg.repo)
                 ELSE <<>>]

RequestException(n) == [exc |-> "RequestException", attempt |-> n]

NoResult == [kind |-> "none", packages |-> {}, error |-> "none", status_code |-> 0,
             exc |-> NoError]

\* NextAttempt with the budget check off by one (`attempt <= 3`).
NextAttemptOffByOne ==
    IF attempt < MaxAttempts + 1
    THEN /\ attempt' = attempt + 1
         /\ gpc' = "primary"
    ELSE /\ attempt' = attempt
         /\ gpc' = "after"

\* Lines 511-516 and 519-522: the end of an attempt that did not break on 200.
NextAttempt ==
    IF attempt < MaxAttempts
    THEN /\ attempt' = attempt + 1
         /\ gpc' = "primary"
    ELSE /\ attempt' = attempt
         /\ gpc' = "after"

\* PrimaryAnswers trying the fallback host on every status but 200.
PrimaryAnswersFallbackOnAnyStatus(status) ==
    /\ gpc = "primary"
    /\ response' = Response(PrimaryHost, status)
    /\ reqlog' = Append(reqlog, [attempt |-> attempt, host |-> PrimaryHost,
                                 status_code |-> status])
    /\ IF status = 200
       THEN gpc' = "after" /\ attempt' = attempt
       ELSE gpc' = "fallback" /\ attempt' = attempt
    /\ UNCHANGED <<garg, last_error, gresult, pipeVars, sdfVars>>

\* Line 503 answered with a status code.
PrimaryAnswers(status) ==
    /\ gpc = "primary"
    /\ response' = Response(PrimaryHost, status)
    /\ reqlog' = Append(reqlog, [attempt |-> attempt, host |-> PrimaryHost,
                                 status_code |-> status])
    /\ IF status = 200
       THEN gpc' = "after" /\ attempt' = attempt
       ELSE IF status = 404
       THEN gpc' = "fallback" /\ attempt' = attempt
       ELSE NextAttempt
    /\ UNCHANGED <<garg, last_error, gresult, pipeVars, sdfVars>>

\* Line 503 raised requests.RequestException.
PrimaryFails ==
    /\ gpc = "primary"
    /\ last_error' = RequestException(attempt)
    /\ reqlog' = Append(reqlog, [attempt |-> attempt, host |-> PrimaryHost,
                                 status_code |-> 0])
    /\ NextAttempt
    /\ UNCHANGED <<garg, response, gresult, pipeVars, sdfVars>>

\* Line 508 answered with a status code.
FallbackAnswers(status) ==
    /\ gpc = "fallback"
    /\ response' = Response(FallbackHost, status)
    /\ reqlog' = Append(reqlog, [attempt |-> attempt, host |-> FallbackHost,
                                 status_code |-> status])
    /\ IF status = 200
       THEN gpc' = "after" /\ attempt' = attempt
       ELSE NextAttempt
    /\ UNCHANGED <<garg, last_error, gresult, pipeVars, sdfVars>>

\* Line 508 raised requests.RequestException: `response` keeps the primary's.
FallbackFails ==
    /\ gpc = "fallback"
    /\ last_error' = RequestException(attempt)
    /\ reqlog' = Append(reqlog, [attempt |-> attempt, host |-> FallbackHost,
                                 status_code |-> 0])
    /\ NextAttempt
    /\ UNCHANGED <<garg, response, gresult, pipeVars, sdfVars>>

\* AfterLoop without the test of line 527: whatever response is at hand is
\* decoded.
AfterLoopDecodingAnyStatus ==
    /\ gpc = "after"
    /\ gpc' = "done"
    /\ gresult' =
         IF response = NoResponse
         THEN [NoResult EXCEPT !.kind = "raised", !.error = "network",
                               !.exc = last_error]
         ELSE [NoResult EXCEPT !.kind = "returned",
                  !.packages = ParsePackages(response.content, garg.release,
                                             garg.component, garg.repo)]
    /\ UNCHANGED <<garg, attempt, response, last_error, reqlog, pipeVars, sdfVars>>

\* Lines 524-544.
AfterLoop ==
    /\ gpc = "after"
    /\ gpc' = "done"
    /\ gresult' =
         IF response = NoResponse
         THEN [NoResult EXCEPT !.kind = "raised", !.error = "network",
                               !.exc = last_error]
         ELSE IF response.status_code # 200
         THEN [NoResult EXCEPT !.kind = "raised", !.error = "status",
                               !.status_code = response.status_code]
         ELSE [NoResult EXCEPT !.kind = "returned",
                  !.packages = ParsePackages(response.content, garg.release,
                                             garg.component, garg.repo)]
    /\ UNCHANGED <<garg, attempt, response, last_error, reqlog, pipeVars, sdfVars>>

-----------------------------------------------------------------------------
(***************************************************************************)
(* The inputs of a run.                                                    *)
(***************************************************************************)
\* The orders a process may iterate the set `releases` in (the hash of an
\* UbuntuRelease is built from its strings, so the order is the process's).
Orders ==
    { o \in [1..NumReleases -> Releases] :
        \A i, j \in 1..NumReleases : o[i] = o[j] => i = j }

NumTasks == NumReleases * Len(components) * Len(repos)

\* Product with the repos before the components: product(releases, _repos,
\* _components).
ProductReposFirst(order) ==
    [k \in 1..NumTasks |->
        LET nc == Len(components)
            nr == Len(repos)
        IN  [release |-> order[((k - 1) \div (nc * nr)) + 1],
             component |-> components[((k - 1) % nc) + 1],
             repo |-> repos[(((k - 1) \div nc) % nr) + 1]]]

\* list(product(releases, _components, _repos)), line 393.
Product(order) ==
    [k \in 1..NumTasks |->
        LET nc == Len(components)
            nr == Len(repos)
        IN  [release |-> order[((k - 1) \div (nc * nr)) + 1],
             component |-> components[(((k - 1) \div nr) % nc) + 1],
             repo |-> repos[((k - 1) % nr) + 1]]]

Unread == [read |-> FALSE, is_dir |-> FALSE, dir |-> << >>]

-----------------------------------------------------------------------------
(***************************************************************************)
(* git and git_panic (lines 181-217). A `str | None` is a record: None, or *)
(* a string.                                                               *)
(***************************************************************************)
PyNone == [none |-> TRUE, str |-> ""]
PyStr(s) == [none |-> FALSE, str |-> s]

\* The truth value of a `str | None`: None and "" are false.
Truthy(x) == ~x.none /\ x.str # ""

\* What a failing git command may have written to stderr (line 201 gives ""
\* when it wrote nothing).
Stderrs == {"", "fatal"}

\* Lines 190-202: (out, None) on exit status 0, (None, stderr) otherwise.
git(returncode, stdout, stderr) ==
    IF returncode = 0
    THEN [out |-> PyStr(stdout), err |-> PyNone]
    ELSE [out |-> PyNone, err |-> PyStr(stderr)]

\* git_panic with the assert of line 216 left out.
git_panicWithoutAssert(returncode, stdout, stderr) ==
    LET r == git(returncode, stdout, stderr)
    IN  IF Truthy(r.err)
        THEN [raised |-> "GitError", out |-> PyNone]
        ELSE [raised |-> "none", out |-> r.out]

\* Lines 210-217: GitError on `if err:`, AssertionError on the assert of
\* line 216 (the script runs under `python3`, with assertions on).
git_panic(returncode, stdout, stderr) ==
    LET r == git(returncode, stdout, stderr)
    IN  IF Truthy(r.err)
        THEN [raised |-> "GitError", out |-> PyNone]
        ELSE IF r.out.none
        THEN [raised |-> "AssertionError", out |-> PyNone]
        ELSE [raised |-> "none", out |-> r.out]

-----------------------------------------------------------------------------
(***************************************************************************)
(* _ubuntu_branches_in_chisel_releases (lines 281-292) and                 *)
(* UbuntuRelease.from_branch_name (lines 96-103). A line of git's output   *)
(* and a branch name are sequences of tokens: "'", " ", "origin/",         *)
(* "ubuntu-" and the tokens of what follows.                               *)
(***************************************************************************)
Whitespace == {" "}

\* str.strip(chars)
strip(s, chars) ==
    LET keep == { i \in 1..Len(s) : s[i] \notin chars }
    IN  IF keep = {} THEN << >>
        ELSE SubSeq(s, CHOOSE i \in keep : \A j \in keep : i <= j,
                       CHOOSE i \in keep : \A j \in keep : j <= i)

\* str.startswith(prefix)
startswith(s, prefix) ==
    Len(s) >= Len(prefix) /\ SubSeq(s, 1, Len(prefix)) = prefix

\* str.removeprefix(prefix)
removeprefix(s, prefix) ==
    IF startswith(s, prefix) THEN SubSeq(s, Len(prefix) + 1, Len(s)) ELSE s

\* UbuntuRelease.version of release r, and UbuntuRelease.branch_name.
VersionOf(r) == << ToString(r) >>
branch_name(r) == << "ubuntu-" >> \o VersionOf(r)

\* Line 146: _VERSION_TO_RELEASE for a catalog of releases.
VersionToRelease(catalog) ==
    [v \in { VersionOf(r) : r \in catalog } |->
        CHOOSE r \in catalog : VersionOf(r) = v]

NoRelease == -1

\* from_branch_name with the check of lines 101-102 left out: the None of
\* _VERSION_TO_RELEASE.get is returned.
from_branch_nameWithoutCheck(branch, v2r) ==
    IF ~startswith(branch, << "ubuntu-" >>)
    THEN [raised |-> "AssertionError", release |-> NoRelease]
    ELSE LET version == SubSeq(branch, 2, Len(branch))
         IN  IF version \in DOMAIN v2r
             THEN [raised |-> "none", release |-> v2r[version]]
             ELSE [raised |-> "none", release |-> NoRelease]

\* Lines 96-103. branch.split("-", 1)[1] is what follows the first "-", the
\* one that ends the token "ubuntu-".
from_branch_name(branch, v2r) ==
    IF ~startswith(branch, << "ubuntu-" >>)
    THEN [raised |-> "AssertionError", release |-> NoRelease]
    ELSE LET version == SubSeq(branch, 2, Len(branch))
         IN  IF version \in DOMAIN v2r
             THEN [raised |-> "none", release |-> v2r[version]]
             ELSE [raised |-> "ValueError", release |-> NoRelease]

NoBranchesResult == [kind |-> "none", exc |-> "none", releases |-> {}]

\* Lines 290-292 on the lines git printed.
ubuntu_branches_in_chisel_releases(lines, v2r) ==
    LET stripped == [i \in DOMAIN lines |-> strip(strip(lines[i], Whitespace), {"'"})]
        kept == SelectSeq(stripped,
                          LAMBDA b : startswith(b, << "origin/", "ubuntu-" >>))
        branches == [i \in DOMAIN kept |-> removeprefix(kept[i], << "origin/" >>)]
        results == [i \in DOMAIN branches |-> from_branch_name(branches[i], v2r)]
        failing == { i \in DOMAIN results : results[i].raised # "none" }
    IN  IF failing # {}
        THEN [kind |-> "raised",
              exc |-> results[CHOOSE i \in failing : \A j \in failing : i <= j].raised,
              releases |-> {}]
        ELSE [kind |-> "returned", exc |-> "none",
              releases |-> { results[i].release : i \in DOMAIN results }]

\* The line git prints for a branch (--format='%(refname:short)' is passed
\* without a shell, so the quotes are printed).
Quoted(name) == << "'" >> \o name \o << "'" >>
BranchLine(r) == Quoted(<< "origin/" >> \o branch_name(r))

\* The remote branches of the repository of a run: main and the release
\* branches.
RepositoryBranches ==
    << Quoted(<< "origin/", "main" >>) >> \o [r \in 1..NumReleases |-> BranchLine(r)]

-----------------------------------------------------------------------------
(***************************************************************************)
(* The __main__ block: what the process ends with.                         *)
(***************************************************************************)
\* MainExcept with a last clause that logs instead of raising again.
MainExceptLogsAll(exc) == "ok"

\* The except clauses of lines 1097-1104: NotImplementedError and
\* FileExistsError are logged, every other exception is raised again.
MainExcept(exc) ==
    IF exc \in {"NotImplementedError", "FileExistsError"} THEN "ok" ELSE "failed"

\* Lines 268-278.
cleanup_chisel_releases_clone(cl) == IF cl = "none" THEN "none" ELSE "removed"

\* The finally clause of lines 1105-1107.
MainFinally(dbg, cl) == IF ~dbg THEN cleanup_chisel_releases_clone(cl) ELSE cl

\* Propagate with the cleanup as the last statement of the try block instead
\* of a finally clause.
PropagateWithoutFinally(exc) ==
    /\ pc' = "exit"
    /\ raised' = exc
    /\ outcome' = MainExcept(exc)
    /\ clone' = clone

\* An exception leaves main: the except clauses and the finally clause run
\* and the process ends.
Propagate(exc) ==
    /\ pc' = "exit"
    /\ raised' = exc
    /\ outcome' = MainExcept(exc)
    /\ clone' = MainFinally(debug, clone)

-----------------------------------------------------------------------------
(***************************************************************************)
(* The preamble of the __main__ block (lines 1082-1092) and the first line *)
(* of main (line 957). pc stands at                                        *)
(*   "check_files"  before check_db_files_existence                       *)
(*   "distro_info"  before init_distro_info                                *)
(*   "clone"        before init_chisel_releases_clone                      *)
(*   "git_clone"    inside it, before the git clone of line 252            *)
(*   "branches"     before _ubuntu_branches_in_chisel_releases             *)
(***************************************************************************)
\* check_db_files_existence looking at the snapshot path only.
check_db_files_existenceSnapshotOnly(db_exists, compressed_exists, f, c) ==
    IF db_exists /\ ~f THEN "FileExistsError" ELSE "none"

\* Lines 1051-1071: the exception raised, "none" when it returns.
check_db_files_existence(db_exists, compressed_exists, f, c) ==
    IF db_exists /\ ~f THEN "FileExistsError"
    ELSE IF c /\ compressed_exists /\ ~f THEN "FileExistsError"
    ELSE "none"

\* CheckDbFiles unlinking the files it is allowed to overwrite.
CheckDbFilesUnlinking ==
    /\ pc = "check_files"
    /\ LET exc == check_db_files_existence(db.exists, compressed_db.exists,
                                           force, compress)
       IN  IF exc # "none"
           THEN Propagate(exc) /\ UNCHANGED <<db, compressed_db>>
           ELSE /\ pc' = "distro_info"
                /\ db' = [db EXCEPT !.exists = FALSE]
                /\ compressed_db' = IF compress
                                    THEN [compressed_db EXCEPT !.exists = FALSE]
                                    ELSE compressed_db
                /\ UNCHANGED <<raised, outcome, clone>>
    /\ UNCHANGED <<fetchVars, sdfVars, inputVars, wtVars, branches_result,
                   poolPVars, poolSVars, faults, repository, notes_by_release,
                   called, runNo, prev>>

\* Lines 1084-1089.
CheckDbFiles ==
    /\ pc = "check_files"
    /\ LET exc == check_db_files_existence(db.exists, compressed_db.exists,
                                           force, compress)
       IN  IF exc # "none"
           THEN Propagate(exc)
           ELSE pc' = "distro_info" /\ UNCHANGED <<raised, outcome, clone>>
    /\ UNCHANGED <<fetchVars, sdfVars, inputVars, wtVars, compressed_db, branches_result,
                   poolPVars, poolSVars, faults, repository, notes_by_release,
                   db, called, runNo, prev>>

\* Line 1090: distro-info is queried and _VERSION_TO_RELEASE is built.
InitDistroInfo ==
    /\ pc = "distro_info"
    /\ called' = [called EXCEPT !.distro_info = TRUE]
    /\ pc' = "clone"
    /\ UNCHANGED <<fetchVars, sdfVars, inputVars, procVars, poolPVars, poolSVars, outcome,
                   raised, faults, repository, notes_by_release, db, runNo, prev>>

\* Line 1090: from_distro_info_line raises ValueError on a line of the feed.
InitDistroInfoRaises ==
    /\ pc = "distro_info"
    /\ faults < MaxFaults
    /\ faults' = faults + 1
    /\ called' = [called EXCEPT !.distro_info = TRUE]
    /\ Propagate("ValueError")
    /\ UNCHANGED <<fetchVars, sdfVars, inputVars, wtVars, compressed_db, branches_result,
                   poolPVars, poolSVars, repository, notes_by_release, db,
                   runNo, prev>>

\* Lines 249-251: the directory of the clone is made.
MakeCloneDir ==
    /\ pc = "clone"
    /\ clone' = "empty"
    /\ pc' = "git_clone"
    /\ UNCHANGED <<fetchVars, sdfVars, inputVars, wtVars, compressed_db, branches_result,
                   poolPVars, poolSVars, outcome, raised, faults, repository,
                   notes_by_release, db, called, runNo, prev>>

\* Lines 252-260: git clone exits with status 0.
GitCloned ==
    /\ pc = "git_clone"
    /\ clone' = "cloned"
    /\ pc' = "branches"
    /\ UNCHANGED <<fetchVars, sdfVars, inputVars, wtVars, compressed_db, branches_result,
                   poolPVars, poolSVars, outcome, raised, faults, repository,
                   notes_by_release, db, called, runNo, prev>>

\* Lines 252-258: git clone exits with another status.
GitCloneFails ==
    /\ pc = "git_clone"
    /\ faults < MaxFaults
    /\ faults' = faults + 1
    /\ \E stderr \in Stderrs :
          LET r == git_panic(128, "", stderr)
          IN  IF r.raised # "none"
              THEN Propagate(r.raised)
              ELSE pc' = "branches" /\ UNCHANGED <<raised, outcome, clone>>
    /\ UNCHANGED <<fetchVars, sdfVars, inputVars, wtVars, compressed_db, branches_result,
                   poolPVars, poolSVars, repository, notes_by_release, db,
                   called, runNo, prev>>

\* Line 957: releases = _ubuntu_branches_in_chisel_releases(). relOrder is an
\* order of the set returned. (git branch fails in a directory that holds no
\* clone.)
MainBranches ==
    /\ pc = "branches"
    /\ LET r == ubuntu_branches_in_chisel_releases(remote_branches,
                                                   version_to_release)
       IN  IF clone # "cloned"
           THEN /\ Propagate("GitError")
                /\ UNCHANGED branches_result
           ELSE /\ branches_result' = r
                /\ IF r.kind = "raised"
                   THEN Propagate(r.exc)
                   ELSE /\ { relOrder[i] : i \in DOMAIN relOrder } = r.releases
                        /\ pc' = "packages"
                        /\ UNCHANGED <<raised, outcome, clone>>
    /\ UNCHANGED <<fetchVars, sdfVars, inputVars, wtVars, compressed_db, poolPVars,
                   poolSVars, faults, repository, notes_by_release, db, called,
                   runNo, prev>>

\* _ubuntu_branches_in_chisel_releases applied on its own.
CallUbuntuBranches ==
    /\ branches_result = NoBranchesResult
    /\ branches_result' = ubuntu_branches_in_chisel_releases(remote_branches,
                                                             version_to_release)
    /\ UNCHANGED <<fetchVars, sdfVars, inputVars, clone, wtVars, compressed_db, poolPVars,
                   poolSVars, runVars, runNo, prev>>

-----------------------------------------------------------------------------
(***************************************************************************)
(* _get_packages_by_release (lines 384-417).                               *)
(***************************************************************************)
NewFuture(empty) == [st |-> "pending", result |-> empty, exc |-> "none"]

Running(fut) == { k \in DOMAIN fut : fut[k].st \notin
                    {"pending", "done", "raised", "cancelled"} }

\* The packages a _get_packages call returns: those of the body served.
GetPackagesResult(args) ==
    ParsePackages(ManifestBody(PrimaryHost, args.release, args.component, args.repo),
                  args.release, args.component, args.repo)

\* Line 398: the sequential path calls _get_packages for the next triple.
SeqGetPackages ==
    /\ pc = "packages" /\ jobs = 1
    /\ Len(package_listings) < NumTasks
    /\ LET args == Product(relOrder)[Len(package_listings) + 1]
       IN  /\ package_listings' =
               Append(package_listings,
                      [args |-> args, packages |-> GetPackagesResult(args)])
           /\ called' = [called EXCEPT !.get_packages = Append(@, args)]
    /\ UNCHANGED <<fetchVars, sdfVars, inputVars, procVars, futP, packages_by_release, poolSVars,
                   pc, outcome, raised, faults, repository, notes_by_release, db,
                   runNo, prev>>

\* Line 398: the call raises; nothing catches it before the __main__ block.
SeqGetPackagesRaises ==
    /\ pc = "packages" /\ jobs = 1
    /\ Len(package_listings) < NumTasks
    /\ faults < MaxFaults
    /\ faults' = faults + 1
    /\ called' = [called EXCEPT !.get_packages =
                    Append(@, Product(relOrder)[Len(package_listings) + 1])]
    /\ Propagate("Exception")
    /\ UNCHANGED <<fetchVars, sdfVars, inputVars, wtVars, compressed_db, branches_result,
                   poolPVars, poolSVars, repository, notes_by_release, db,
                   runNo, prev>>

\* A worker of the pool of line 401 takes the next queued call.
PoolStartPackages(k) ==
    /\ pc = "packages" /\ jobs # 1
    /\ futP[k].st = "pending"
    /\ \A j \in 1..(k - 1) : futP[j].st # "pending"
    /\ Cardinality(Running(futP)) < jobs
    /\ futP' = [futP EXCEPT ![k].st = "running"]
    /\ called' = [called EXCEPT !.get_packages = Append(@, Product(relOrder)[k])]
    /\ UNCHANGED <<fetchVars, sdfVars, inputVars, procVars, package_listings, packages_by_release,
                   poolSVars, pc, outcome, raised, faults, repository,
                   notes_by_release, db, runNo, prev>>

\* The call returns: its future holds the packages of its own triple.
PoolPackagesReturn(k) ==
    /\ pc \in {"packages", "packages_abort"}
    /\ futP[k].st = "running"
    /\ futP' = [futP EXCEPT ![k] =
                  [st |-> "done", result |-> GetPackagesResult(Product(relOrder)[k]),
                   exc |-> "none"]]
    /\ UNCHANGED <<fetchVars, sdfVars, inputVars, procVars, package_listings, packages_by_release,
                   poolSVars, runVars, runNo, prev>>

\* The call raises: its future holds the exception.
PoolPackagesRaise(k) ==
    /\ pc \in {"packages", "packages_abort"}
    /\ futP[k].st = "running"
    /\ faults < MaxFaults
    /\ faults' = faults + 1
    /\ futP' = [futP EXCEPT ![k].st = "raised", ![k].exc = "Exception"]
    /\ UNCHANGED <<fetchVars, sdfVars, inputVars, procVars, package_listings, packages_by_release,
                   poolSVars, pc, outcome, raised, repository, notes_by_release, db,
                   called, runNo, prev>>

\* list(executor.map(...)) of line 406 reaches a future that raised: the
\* exception is raised in the coordinating thread and the futures not yet
\* started are cancelled.
CancelPending(fut) ==
    [k \in DOMAIN fut |->
        IF fut[k].st = "pending" THEN [fut[k] EXCEPT !.st = "cancelled"]
        ELSE fut[k]]

FirstRaised(fut) ==
    \E k \in DOMAIN fut :
        /\ fut[k].st = "raised"
        /\ \A j \in 1..(k - 1) : fut[j].st = "done"

\* The exception list(executor.map(...)) raises: that of the first future, in
\* submission order, that raised.
FirstException(fut) ==
    LET failed == { k \in DOMAIN fut : fut[k].st = "raised" }
    IN  fut[CHOOSE k \in failed : \A j \in failed : k <= j].exc

PackagesObserveRaise ==
    /\ pc = "packages" /\ jobs # 1
    /\ FirstRaised(futP)
    /\ futP' = CancelPending(futP)
    /\ pc' = "packages_abort"
    /\ UNCHANGED <<fetchVars, sdfVars, inputVars, procVars, package_listings, packages_by_release,
                   poolSVars, outcome, raised, faults, repository, notes_by_release,
                   db, called, runNo, prev>>

\* The executor's __exit__ waits for the running calls; then the exception
\* leaves main.
PackagesShutdown ==
    /\ pc = "packages_abort"
    /\ Running(futP) = {}
    /\ Propagate("Exception")
    /\ UNCHANGED <<fetchVars, sdfVars, inputVars, wtVars, compressed_db, branches_result,
                   poolPVars, poolSVars, faults, repository, notes_by_release,
                   db, called, runNo, prev>>

\* Line 407: zip(_product, results).
ZipPackages ==
    [k \in 1..NumTasks |->
        [args |-> Product(relOrder)[k], packages |-> futP[k].result]]

\* UnionPackages over the listings of component main alone.
UnionPackagesOfMain(listings) ==
    [r \in Releases |->
        [n \in PackageNames |->
            LET has == { k \in DOMAIN listings :
                           /\ listings[k].args.release = r
                           /\ listings[k].args.component = "main"
                           /\ \E pk \in listings[k].packages : pk.name = n }
            IN  IF has = {} THEN NoPackage
                ELSE LET last == CHOOSE k \in has : \A j \in has : j <= k
                     IN  CHOOSE pk \in listings[last].packages : pk.name = n]]

\* Lines 411-415: the union, in the order of package_listings; a later
\* listing's package replaces an earlier one of the same name. (No manifest
\* of ManifestBody lists a name twice, so the order inside one listing's set
\* does not show.)
UnionPackages(listings) ==
    [r \in Releases |->
        [n \in PackageNames |->
            LET has == { k \in DOMAIN listings :
                           /\ listings[k].args.release = r
                           /\ \E pk \in listings[k].packages : pk.name = n }
            IN  IF has = {} THEN NoPackage
                ELSE LET last == CHOOSE k \in has : \A j \in has : j <= k
                     IN  CHOOSE pk \in listings[last].packages : pk.name = n]]

\* Lines 407-417: all calls are done; the listings are merged and returned.
PackagesByReleaseReturns ==
    /\ pc = "packages"
    /\ IF jobs = 1
       THEN /\ Len(package_listings) = NumTasks
            /\ package_listings' = package_listings
       ELSE /\ \A k \in 1..NumTasks : futP[k].st = "done"
            /\ package_listings' = ZipPackages
    /\ packages_by_release' = UnionPackages(package_listings')
    /\ pc' = "slices"
    /\ UNCHANGED <<fetchVars, sdfVars, inputVars, procVars, futP, poolSVars, outcome, raised,
                   faults, repository, notes_by_release, db, called, runNo, prev>>

-----------------------------------------------------------------------------
(***************************************************************************)
(* Slice definition texts. A text is a sequence of characters; a run of    *)
(* characters no operation looks into is kept as one token ("slices",      *)
(* "foo", "  " for one indentation step, "{}"). The characters of a path   *)
(* or of an essential item are single tokens, so that they can be          *)
(* compared as Python compares strings.                                    *)
(***************************************************************************)
LF == "LF"              \* the line feed
DQ == "DQ"              \* the double quote
EscapedStar == "ESC"    \* the escape \x2a of a double-quoted YAML scalar
Blank == {" ", "  "}    \* white space inside a line

Least(S) == CHOOSE i \in S : \A j \in S : i <= j

\* The elements of a set of numbers in ascending order.
Ascending(S) ==
    [n \in 1..Cardinality(S) |->
        CHOOSE i \in S : Cardinality({ j \in S : j < i }) = n - 1]

\* str.splitlines(): the lines without their line feeds; a text that ends
\* with a line feed has no empty last line.
splitlines(text) ==
    LET ends == { i \in DOMAIN text : text[i] = LF }
                    \cup (IF text # << >> /\ text[Len(text)] # LF
                          THEN {Len(text) + 1} ELSE {})
        end == Ascending(ends)
    IN  [k \in DOMAIN end |->
            SubSeq(text, IF k = 1 THEN 1 ELSE end[k - 1] + 1, end[k] - 1)]

\* "**" in s
ContainsDoubleStar(s) ==
    \E i \in 1..(Len(s) - 1) : s[i] = "*" /\ s[i + 1] = "*"

\* line.strip() == ""
IsBlankLine(line) == \A i \in DOMAIN line : line[i] \in Blank

-----------------------------------------------------------------------------
(***************************************************************************)
(* yaml.safe_load (lines 653 and 851) on the block-style YAML the slice    *)
(* definitions are written in: mappings and sequences indented by one step *)
(* per level, keys that are plain or double-quoted, values that are a      *)
(* nested block, nothing (null), the empty flow mapping {} or a plain      *)
(* scalar, comments, blank lines. A decoded value is a record: None, a     *)
(* str, a dict (its items in order) or a list.                             *)
(***************************************************************************)
PyNull == [kind |-> "null", str |-> << >>, items |-> << >>]
PyString(s) == [kind |-> "str", str |-> s, items |-> << >>]
PyDict(items) == [kind |-> "dict", str |-> << >>, items |-> items]
PyList(items) == [kind |-> "list", str |-> << >>, items |-> items]
PyInt(digits) == [kind |-> "int", str |-> digits, items |-> << >>]

\* The plain scalars of the model that the resolver of yaml.safe_load reads
\* as an int.
Digits == {"1", "2"}

\* Where the comment of a line starts: at a # that opens the line or
\* follows white space.
CommentAt(line) ==
    { i \in DOMAIN line : line[i] = "#" /\ (i = 1 \/ line[i - 1] \in Blank) }

WithoutComment(line) ==
    IF CommentAt(line) = {} THEN line
    ELSE SubSeq(line, 1, Least(CommentAt(line)) - 1)

\* The indentation steps a line starts with.
IndentOf(line) ==
    Cardinality({ i \in DOMAIN line : \A j \in 1..i : line[j] = "  " })

\* What a line holds between its indentation and its comment.
BodyOf(line) ==
    strip(SubSeq(WithoutComment(line), IndentOf(line) + 1,
                 Len(WithoutComment(line))), Blank)

\* The value of a scalar: a double-quoted one loses its quotes and has its
\* escapes replaced, a plain one is taken as written.
ScalarValue(tokens) ==
    IF Len(tokens) >= 2 /\ tokens[1] = DQ /\ tokens[Len(tokens)] = DQ
    THEN [i \in 1..(Len(tokens) - 2) |->
            IF tokens[i + 1] = EscapedStar THEN "*" ELSE tokens[i + 1]]
    ELSE tokens

\* The type the resolver gives a scalar: a plain scalar made of digits is an
\* int, every double-quoted scalar and every other plain one a str.
ScalarKind(tokens) ==
    IF Len(tokens) = 1 /\ tokens[1] \in Digits THEN "int" ELSE "str"

\* A line the scanner cannot read: a double-quoted scalar that is not
\* closed, or neither a key nor a sequence item.
Unscannable(line) ==
    LET body == BodyOf(line)
    IN  \/ Cardinality({ i \in DOMAIN body : body[i] = DQ }) % 2 = 1
        \/ body[1] # "-" /\ \A i \in DOMAIN body : body[i] # ":"

\* A sequence item scanned: its indentation and the tokens after the dash.
ScannedItem(level, tokens) ==
    [level |-> level, kind |-> "item", key |-> << >>, key_kind |-> "none",
     scalar |-> ScalarValue(tokens), scalar_kind |-> ScalarKind(tokens)]

\* A key scanned: its indentation, the tokens before the colon and those
\* after it. The key has a nested block or nothing ("open"), {} or a scalar.
ScannedKey(level, key, rest) ==
    [level |-> level,
     kind |-> IF rest = << >> THEN "open"
              ELSE IF rest = << "{}" >> THEN "empty" ELSE "scalar",
     key |-> ScalarValue(key),
     key_kind |-> ScalarKind(key),
     scalar |-> IF rest = << >> \/ rest = << "{}" >> THEN << >> ELSE ScalarValue(rest),
     scalar_kind |-> ScalarKind(rest)]

\* The first colon of a line's body.
ColonAt(body) == Least({ i \in DOMAIN body : body[i] = ":" })

ScanBody(level, body) ==
    IF body[1] = "-"
    THEN ScannedItem(level, strip(Tail(body), Blank))
    ELSE ScannedKey(level, SubSeq(body, 1, ColonAt(body) - 1),
                    strip(SubSeq(body, ColonAt(body) + 1, Len(body)), Blank))

\* A line with content, scanned: a sequence item or a key.
ScanLine(line) == ScanBody(IndentOf(line), BodyOf(line))

RECURSIVE BlockValue(_, _)
\* The value of a block: the scanned lines C at the positions S, the first
\* of which gives the block's indentation. A block of items is a list, a
\* block of keys a dict; the lines between one head and the next are the
\* nested block of the first.
BlockValue(C, S) ==
    LET heads == { i \in S : C[i].level = C[Least(S)].level }
        head == Ascending(heads)
        nested(i) == { j \in S : j > i /\ \A h \in heads : h > i => j < h }
        value(i) ==
            IF C[i].kind \in {"item", "scalar"}
            THEN IF C[i].scalar_kind = "int" THEN PyInt(C[i].scalar)
                 ELSE PyString(C[i].scalar)
            ELSE IF C[i].kind = "empty" THEN PyDict(<< >>)
            ELSE IF nested(i) = {} THEN PyNull
            ELSE BlockValue(C, nested(i))
    IN  IF C[Least(S)].kind = "item"
        THEN PyList([n \in DOMAIN head |->
                        [key |-> << >>, key_kind |-> "none", value |-> value(head[n])]])
        ELSE PyDict([n \in DOMAIN head |->
                        [key |-> C[head[n]].key, key_kind |-> C[head[n]].key_kind,
                         value |-> value(head[n])]])

\* yaml.safe_load: the decoded document (None for a text with no content),
\* or the error raised.
safe_load(text) ==
    LET lines == splitlines(text)
        content == Ascending({ i \in DOMAIN lines : BodyOf(lines[i]) # << >> })
    IN  IF \E n \in DOMAIN content : Unscannable(lines[content[n]])
        THEN [ok |-> FALSE, value |-> PyNull, error |-> "ScannerError"]
        ELSE [ok |-> TRUE,
              value |-> IF content = << >> THEN PyNull
                        ELSE BlockValue([n \in DOMAIN content |->
                                            ScanLine(lines[content[n]])],
                                        DOMAIN content),
              error |-> ""]

RECURSIVE JsonDumps(_)
\* json.dumps (line 852): the JSON document written for a decoded value.
\* None is null, a str a string, an int a number, a list an array, and a
\* dict an object, whose member names are strings: a key that is an int is
\* written as the string of its digits.
JsonDumps(value) ==
    CASE value.kind = "null" -> [kind |-> "null", str |-> << >>, items |-> << >>]
      [] value.kind = "str" -> [kind |-> "string", str |-> value.str, items |-> << >>]
      [] value.kind = "int" -> [kind |-> "number", str |-> value.str, items |-> << >>]
      [] value.kind = "list" ->
            [kind |-> "array", str |-> << >>,
             items |-> [i \in DOMAIN value.items |->
                          [name |-> << >>, value |-> JsonDumps(value.items[i].value)]]]
      [] value.kind = "dict" ->
            [kind |-> "object", str |-> << >>,
             items |-> [i \in DOMAIN value.items |->
                          [name |-> value.items[i].key,
                           value |-> JsonDumps(value.items[i].value)]]]

-----------------------------------------------------------------------------
(***************************************************************************)
(* The static analysis (lines 552-635). A check gives the notes it         *)
(* returns, or the exception it raises.                                    *)
(***************************************************************************)
create_note(note, text) == [note |-> note, text |-> text]

Returns(notes) == [raised |-> "none", notes |-> notes]
Raises(exc) == [raised |-> exc, notes |-> << >>]

\* A str key of a dict, and the value under it.
HasKey(dict, key) ==
    \E i \in DOMAIN dict.items :
        dict.items[i].key_kind = "str" /\ dict.items[i].key = key
ValueAt(dict, key) ==
    dict.items[CHOOSE i \in DOMAIN dict.items :
                   dict.items[i].key_kind = "str" /\ dict.items[i].key = key].value

\* data[key]: a dict gives the value or raises KeyError; None, a str and a
\* list have no string subscript.
Subscript(data, key) ==
    IF data.kind # "dict" THEN [raised |-> "TypeError", value |-> PyNull]
    ELSE IF ~HasKey(data, key) THEN [raised |-> "KeyError", value |-> PyNull]
    ELSE [raised |-> "none", value |-> ValueAt(data, key)]

\* key in container: a key of a dict, an element of a list, a substring of
\* a str; None and an int are not iterable.
Contains(container, key) ==
    IF container.kind \in {"null", "int"} THEN [raised |-> "TypeError", value |-> FALSE]
    ELSE [raised |-> "none",
          value |-> IF container.kind = "dict" THEN HasKey(container, key)
                    ELSE IF container.kind = "list"
                    THEN \E i \in DOMAIN container.items :
                            container.items[i].value = PyString(key)
                    ELSE \E i \in 0..(Len(container.str) - Len(key)) :
                            SubSeq(container.str, i + 1, i + Len(key)) = key]

\* Lines 568-574.
check_missing_copyright(data) ==
    LET slices == Subscript(data, << "slices" >>)
        found == Contains(slices.value, << "copyright" >>)
    IN  IF slices.raised # "none" THEN Raises(slices.raised)
        ELSE IF found.raised # "none" THEN Raises(found.raised)
        ELSE IF ~found.value THEN Returns(<< create_note("missing copyright", "") >>)
        ELSE Returns(<< >>)

\* Lines 577-582.
check_double_glob(text) ==
    IF ContainsDoubleStar(text)
    THEN Returns(<< create_note("double glob", "") >>) ELSE Returns(<< >>)

RECURSIVE BlanksCounted(_, _)
\* BlanksAfter without line 591: a line with content does not end the count.
BlanksCounted(lines, n) ==
    IF n = 0 THEN 0
    ELSE IF IsBlankLine(lines[n]) THEN BlanksCounted(lines, n - 1) + 1
    ELSE BlanksCounted(lines, n - 1)

RECURSIVE BlanksAfter(_, _)
\* Lines 586-591: the counter `blanks` after the n-th line.
BlanksAfter(lines, n) ==
    IF n = 0 THEN 0
    ELSE IF IsBlankLine(lines[n]) THEN BlanksAfter(lines, n - 1) + 1
    ELSE 0

\* check_excess_blank_lines counting with BlanksCounted.
ExcessBlankLinesWithoutReset(text) ==
    LET lines == splitlines(text)
    IN  IF \E n \in DOMAIN lines : BlanksCounted(lines, n) > 2
        THEN Returns(<< create_note("excess blank lines", "") >>)
        ELSE Returns(<< >>)

\* Lines 585-594.
check_excess_blank_lines(text) ==
    LET lines == splitlines(text)
    IN  IF \E n \in DOMAIN lines : BlanksAfter(lines, n) > 2
        THEN Returns(<< create_note("excess blank lines", "") >>)
        ELSE Returns(<< >>)

\* The words of the model that an entry of ARCHITECTURE_SIGNATURES (lines
\* 47-56) is a substring of.
ArchitectureWords == {"arm64", "amd64", "charm"}

\* Lines 597-603.
check_architecture_comments(text) ==
    LET lines == splitlines(text)
        comments_content(line) ==
            SubSeq(line, Least({ i \in DOMAIN line : line[i] = "#" }) + 1, Len(line))
    IN  IF \E n \in DOMAIN lines :
              /\ \E i \in DOMAIN lines[n] : lines[n][i] = "#"
              /\ \E i \in DOMAIN comments_content(lines[n]) :
                    comments_content(lines[n])[i] \in ArchitectureWords
        THEN Returns(<< create_note("architecture comments", "") >>)
        ELSE Returns(<< >>)

\* The code point of a character of a path or of an item.
Ord(c) == CASE c = "*" -> 42 [] c = "/" -> 47 [] c = "1" -> 49 [] c = "2" -> 50
            [] c = "a" -> 97 [] c = "b" -> 98 [] c = "c" -> 99

\* s <= t for two str.
StrLessEq(s, t) ==
    LET differ == { i \in 1..Len(s) : i > Len(t) \/ s[i] # t[i] }
    IN  \/ differ = {}
        \/ Least(differ) <= Len(t) /\ Ord(s[Least(differ)]) < Ord(t[Least(differ)])

\* names == sorted(names), for a list of str.
EqualsSorted(names) ==
    \A i, j \in DOMAIN names : i < j => StrLessEq(names[i], names[j])

\* Lines 610-616 for one slice entry: "raised" with the exception, or
\* whether the entry gets a note. contents_keys is taken from a dict (None,
\* a str and a list have no get and no keys); `names != sorted(names)` is
\* True for a str and a dict, which differ from every list; sorted(None) and
\* sorted of an int raise, and so does sorted of keys that are not all of
\* one type.
UnsortedEntry(content) ==
    LET contents == IF HasKey(content, << "contents" >>)
                    THEN ValueAt(content, << "contents" >>) ELSE PyDict(<< >>)
        essentials == IF HasKey(content, << "essential" >>)
                      THEN ValueAt(content, << "essential" >>) ELSE PyList(<< >>)
        contents_keys == [i \in DOMAIN contents.items |-> contents.items[i].key]
    IN  IF content.kind # "dict" THEN [raised |-> "AttributeError", noted |-> FALSE]
        ELSE IF contents.kind # "dict"
        THEN [raised |-> "AttributeError", noted |-> FALSE]
        ELSE IF \E i, j \in DOMAIN contents.items :
                   contents.items[i].key_kind # contents.items[j].key_kind
        THEN [raised |-> "TypeError", noted |-> FALSE]
        ELSE IF ~EqualsSorted(contents_keys) THEN [raised |-> "none", noted |-> TRUE]
        ELSE IF essentials.kind \in {"null", "int"}
        THEN [raised |-> "TypeError", noted |-> FALSE]
        ELSE IF essentials.kind \in {"str", "dict"}
        THEN [raised |-> "none", noted |-> TRUE]
        ELSE [raised |-> "none",
              noted |-> ~EqualsSorted([i \in DOMAIN essentials.items |->
                                          essentials.items[i].value.str])]

\* Lines 606-617: one note for every entry that gets one, in the order of
\* the entries, unless an entry raises.
check_unsorted_contents(data_json) ==
    LET slices == Subscript(data_json, << "slices" >>)
        entry(i) == UnsortedEntry(slices.value.items[i].value)
        noted == IF slices.raised = "none" /\ slices.value.kind = "dict"
                 THEN { i \in DOMAIN slices.value.items : entry(i).noted }
                 ELSE {}
        failing == IF slices.raised = "none" /\ slices.value.kind = "dict"
                   THEN { i \in DOMAIN slices.value.items : entry(i).raised # "none" }
                   ELSE {}
    IN  IF slices.raised # "none" THEN Raises(slices.raised)
        ELSE IF slices.value.kind # "dict" THEN Raises("AttributeError")
        ELSE IF failing # {} THEN Raises(entry(Least(failing)).raised)
        ELSE Returns([n \in 1..Cardinality(noted) |-> create_note("unsorted content", "")])

\* Lines 620-635: the notes of the five checks in the order they are run,
\* or the exception of the first check that raises.
check_sdf(data_json, text) ==
    LET copyright == check_missing_copyright(data_json)
        unsorted == check_unsorted_contents(data_json)
    IN  IF copyright.raised # "none" THEN copyright
        ELSE IF unsorted.raised # "none" THEN unsorted
        ELSE Returns(copyright.notes \o check_double_glob(text).notes
                        \o check_excess_blank_lines(text).notes
                        \o check_architecture_comments(text).notes
                        \o unsorted.notes)

-----------------------------------------------------------------------------
(***************************************************************************)
(* The slice definition files of the model, written line by line.          *)
(***************************************************************************)
RECURSIVE Join(_)
Join(seqs) == IF seqs = << >> THEN << >> ELSE Head(seqs) \o Join(Tail(seqs))

Indentation(level) == [i \in 1..level |-> "  "]
KeyLine(level, key) == Indentation(level) \o key \o << ":", LF >>
EmptyMappingLine(level, key) ==
    Indentation(level) \o key \o << ":", " ", "{}", LF >>
ScalarLine(level, key, scalar) ==
    Indentation(level) \o key \o << ":", " " >> \o scalar \o << LF >>
ItemLine(level, scalar) == Indentation(level) \o << "-", " " >> \o scalar \o << LF >>
CommentLine(words) == << "#" >> \o words \o << LF >>

\* n blank lines, every second one of them with a space in it.
BlankLines(n) ==
    Join([k \in 1..n |-> IF k % 2 = 0 THEN << " ", LF >> ELSE << LF >>])

PathA == << "/", "a" >>
PathB == << "/", "b" >>
GlobPath == << "/", "a", "/", "*", "*" >>
\* "/a/\x2a\x2a": the path /a/** written with escapes.
EscapedGlobPath == << DQ, "/", "a", "/", EscapedStar, EscapedStar, DQ >>

Contents(paths) ==
    KeyLine(2, << "contents" >>)
        \o Join([i \in DOMAIN paths |-> EmptyMappingLine(3, paths[i])])
Essential(items) ==
    KeyLine(2, << "essential" >>)
        \o Join([i \in DOMAIN items |-> ItemLine(3, items[i])])
Slice(name, body) == KeyLine(1, << name >>) \o body

\* The files of the branches of the model's repository: one that decodes and
\* gets no note, one that gets notes (no copyright entry, contents out of
\* order), one yaml.safe_load raises on (a quoted key that is not closed),
\* an empty file, and one with a slice named by a number.
OkText == KeyLine(0, << "slices" >>) \o Slice("copyright", Contents(<< PathA >>))
NotedText == KeyLine(0, << "slices" >>) \o Slice("foo", Contents(<< PathB, PathA >>))
InvalidText == KeyLine(0, << "slices" >>) \o Indentation(1) \o << DQ, "foo", ":", LF >>
EmptyText == << >>
\* OkText with a second slice, whose name is written as a number.
NumberedText == OkText \o Slice("1", Contents(<< PathA >>))

\* yaml.safe_load and lines 652-658 on the files of the repository, worked
\* out once for each file.
FileTexts == {OkText, NotedText, InvalidText, EmptyText, NumberedText}
LoadedFiles == [text \in FileTexts |-> safe_load(text)]
YamlLoad(text) == IF text \in FileTexts THEN LoadedFiles[text] ELSE safe_load(text)

AnalysedFiles ==
    [text \in FileTexts |->
        IF ~safe_load(text).ok
        THEN Returns(<< create_note("invalid YAML", safe_load(text).error) >>)
        ELSE check_sdf(safe_load(text).value, text)]

\* What a slices/ directory may hold: (package, text) in the order glob lists
\* the files. <<>> is also what _get_slices returns for a branch with no
\* slices/ directory.
SliceDirs ==
    { << >>,
      << <<"p", NotedText>>, <<"q", NumberedText>> >>,
      << <<"p", OkText>>, <<"q", OkText>> >>,
      << <<"p", NotedText>>, <<"q", InvalidText>> >>,
      << <<"p", NotedText>>, <<"q", EmptyText>> >> }

\* The texts check_sdf is applied to on its own (SpecSdf): an optional
\* top-level key, blank lines, the slices map (absent, empty, or with one or
\* two entries), an optional comment.
MaxBlankRun == 4

Heads == { << >>, ScalarLine(0, << "package" >>, << "p" >>) }

Gaps ==
    { BlankLines(n) : n \in 0..MaxBlankRun }
        \cup { BlankLines(m) \o CommentLine(<< " ", "note" >>) \o BlankLines(n) :
                 m \in 1..MaxBlankRun, n \in 1..MaxBlankRun }

SliceBodies ==
    { << >>,
      Contents(<< PathA, PathB >>),
      Contents(<< PathB, PathA >>),
      Contents(<< PathA, GlobPath >>),
      Contents(<< EscapedGlobPath >>),
      KeyLine(2, << "contents" >>),
      Contents(<< PathA, PathB >>) \o Essential(<< << "a" >>, << "b" >> >>),
      Contents(<< PathA, PathB >>) \o Essential(<< << "b" >>, << "a" >> >>),
      Contents(<< PathB, PathA >>) \o Essential(<< << "b" >>, << "a" >> >>),
      ScalarLine(2, << "essential" >>, << "a" >>) }

SecondSlices ==
    { << >>,
      Slice("copyright", Contents(<< PathA >>)),
      Slice("bar", << >>),
      Slice("bar", Contents(<< PathB, PathA >>)) }

SlicesSections ==
    { << >>, KeyLine(0, << "slices" >>) }
        \cup { KeyLine(0, << "slices" >>) \o Slice("foo", body) \o second :
                 body \in SliceBodies, second \in SecondSlices }

Trailers ==
    { << >>,
      CommentLine(<< " ", "arm64", " ", "only" >>),
      CommentLine(<< " ", "*", "*" >>) }

SdfTexts ==
    { head \o gap \o slices \o trailer :
        head \in Heads, gap \in Gaps, slices \in SlicesSections,
        trailer \in Trailers }
        \cup { InvalidText }

-----------------------------------------------------------------------------
(***************************************************************************)
(* _get_slices (lines 298-350), one blocking step at a time, and           *)
(* _get_slices_by_release (lines 353-381). A call stands at                *)
(*   "pending"  not started                                                *)
(*   "tmpdir"   inside `with TemporaryDirectory`, before the lock          *)
(*   "inAdd"    inside `with _CHISEL_RELEASES_CLONE_PATH_LOCK`: git        *)
(*              worktree add is running                                    *)
(*   "reading"  the lock is released; the slice files are read next        *)
(*   "done", "raised", "cancelled"                                         *)
(***************************************************************************)
\* Line 368: the sequential path calls _get_slices for the next release.
SeqStartSlices(i) ==
    /\ pc = "slices" /\ jobs = 1
    /\ futS[i].st = "pending"
    /\ \A j \in 1..(i - 1) : futS[j].st = "done"
    /\ futS' = [futS EXCEPT ![i].st = "tmpdir"]
    /\ worktree_dir' = [worktree_dir EXCEPT ![i] = "empty"]
    /\ UNCHANGED <<fetchVars, sdfVars, inputVars, clone, worktree_add, compressed_db,
                   branches_result, poolPVars, lock, arrival, slices_by_release,
                   runVars, runNo, prev>>

\* PoolStartSlices with the slice pool created next to the fetch pool: its
\* workers take calls while _get_packages_by_release is still running.
PoolStartSlicesBesideFetches(i) ==
    /\ pc \in {"packages", "slices"} /\ jobs # 1
    /\ futS[i].st = "pending"
    /\ \A j \in 1..(i - 1) : futS[j].st # "pending"
    /\ Cardinality(Running(futS)) < jobs
    /\ futS' = [futS EXCEPT ![i].st = "tmpdir"]
    /\ worktree_dir' = [worktree_dir EXCEPT ![i] = "empty"]
    /\ UNCHANGED <<fetchVars, sdfVars, inputVars, clone, worktree_add, compressed_db,
                   branches_result, poolPVars, lock, arrival, slices_by_release,
                   runVars, runNo, prev>>

\* A worker of the pool of line 371 takes the next queued call.
PoolStartSlices(i) ==
    /\ pc = "slices" /\ jobs # 1
    /\ futS[i].st = "pending"
    /\ \A j \in 1..(i - 1) : futS[j].st # "pending"
    /\ Cardinality(Running(futS)) < jobs
    /\ futS' = [futS EXCEPT ![i].st = "tmpdir"]
    /\ worktree_dir' = [worktree_dir EXCEPT ![i] = "empty"]
    /\ UNCHANGED <<fetchVars, sdfVars, inputVars, clone, worktree_add, compressed_db,
                   branches_result, poolPVars, lock, arrival, slices_by_release,
                   runVars, runNo, prev>>

\* FileLock.acquire: the lock is taken when no call holds it.
LockFree == lock = 0

\* AcquireLock with the with block of line 321 left out.
WorktreeAddWithoutLock(i) ==
    /\ pc \in {"slices", "slices_abort"}
    /\ futS[i].st = "tmpdir"
    /\ futS' = [futS EXCEPT ![i].st = "inAdd"]
    /\ UNCHANGED <<fetchVars, sdfVars, inputVars, procVars, poolPVars, lock, arrival,
                   slices_by_release, runVars, runNo, prev>>

\* AcquireLock entered only once no other _get_slices call is under way: two
\* calls that have both made their directories wait for each other.
AcquireLockWhenPoolIdle(i) ==
    /\ pc \in {"slices", "slices_abort"}
    /\ futS[i].st = "tmpdir"
    /\ LockFree
    /\ Running(futS) \subseteq {i}
    /\ lock' = i
    /\ futS' = [futS EXCEPT ![i].st = "inAdd"]
    /\ UNCHANGED <<fetchVars, sdfVars, inputVars, procVars, poolPVars, arrival, slices_by_release,
                   runVars, runNo, prev>>

\* Line 321: entering `with _CHISEL_RELEASES_CLONE_PATH_LOCK`.
AcquireLock(i) ==
    /\ pc \in {"slices", "slices_abort"}
    /\ futS[i].st = "tmpdir"
    /\ LockFree
    /\ lock' = i
    /\ futS' = [futS EXCEPT ![i].st = "inAdd"]
    /\ UNCHANGED <<fetchVars, sdfVars, inputVars, procVars, poolPVars, arrival, slices_by_release,
                   runVars, runNo, prev>>

\* What a `git worktree add` exited with.
NotRun == [ran |-> FALSE, returncode |-> 0, stderr |-> ""]
GitExit(returncode, stderr) == [ran |-> TRUE, returncode |-> returncode, stderr |-> stderr]

\* TemporaryDirectory.__exit__ (line 317, delete=cleanup): the directory is
\* removed, when `delete`, however the block is left.
TemporaryDirectoryExit(delete, dir) == IF delete THEN "removed" ELSE dir

\* WorktreeAdded with the lines 337-348 moved into the with block of line
\* 321: the lock is still held when the files are read.
WorktreeAddedKeepingLock(i) ==
    /\ pc \in {"slices", "slices_abort"}
    /\ futS[i].st = "inAdd"
    /\ worktree_add' = [worktree_add EXCEPT ![i] = GitExit(0, "")]
    /\ worktree_dir' = [worktree_dir EXCEPT ![i] = "checked_out"]
    /\ futS' = [futS EXCEPT ![i].st = "reading"]
    /\ UNCHANGED <<fetchVars, sdfVars, inputVars, clone, compressed_db, branches_result,
                   poolPVars, lock, arrival, slices_by_release, runVars, runNo,
                   prev>>

\* Lines 322-329: git worktree add exits with status 0; the lock is released
\* on leaving the with block.
WorktreeAdded(i) ==
    /\ pc \in {"slices", "slices_abort"}
    /\ futS[i].st = "inAdd"
    /\ worktree_add' = [worktree_add EXCEPT ![i] = GitExit(0, "")]
    /\ worktree_dir' = [worktree_dir EXCEPT ![i] = "checked_out"]
    /\ lock' = 0
    /\ futS' = [futS EXCEPT ![i].st = "reading"]
    /\ UNCHANGED <<fetchVars, sdfVars, inputVars, clone, compressed_db, branches_result,
                   poolPVars, arrival, slices_by_release, runVars, runNo, prev>>

\* WorktreeAddFails leaving the with block of line 321 by an exception
\* without releasing the lock.
WorktreeAddFailsKeepingLock(i) ==
    /\ pc \in {"slices", "slices_abort"}
    /\ futS[i].st = "inAdd"
    /\ faults < MaxFaults
    /\ faults' = faults + 1
    /\ \E stderr \in Stderrs :
          /\ worktree_add' = [worktree_add EXCEPT ![i] = GitExit(128, stderr)]
          /\ futS' = [futS EXCEPT ![i].st = "raised",
                                  ![i].exc = git_panic(128, "", stderr).raised]
          /\ IF jobs = 1
             THEN Propagate(git_panic(128, "", stderr).raised)
             ELSE UNCHANGED <<pc, raised, outcome, clone>>
    /\ worktree_dir' = [worktree_dir EXCEPT ![i] = TemporaryDirectoryExit(~debug, @)]
    /\ UNCHANGED <<fetchVars, sdfVars, inputVars, compressed_db, branches_result, poolPVars,
                   lock, arrival, slices_by_release, repository, notes_by_release,
                   db, called, runNo, prev>>

\* Lines 322-329: git worktree add exits with another status than 0. When
\* git_panic raises, the lock is released on leaving the with block of line
\* 321 and the directory is removed on leaving that of line 317; on the
\* sequential path the exception leaves main at once. Were git_panic to
\* return, the call would go on to line 337 with an empty directory.
WorktreeAddFails(i) ==
    /\ pc \in {"slices", "slices_abort"}
    /\ futS[i].st = "inAdd"
    /\ faults < MaxFaults
    /\ faults' = faults + 1
    /\ lock' = 0
    /\ \E stderr \in Stderrs :
          LET r == git_panic(128, "", stderr)
          IN  /\ worktree_add' = [worktree_add EXCEPT ![i] = GitExit(128, stderr)]
              /\ IF r.raised # "none"
                 THEN /\ futS' = [futS EXCEPT ![i].st = "raised",
                                              ![i].exc = r.raised]
                      /\ worktree_dir' = [worktree_dir EXCEPT ![i] =
                                             TemporaryDirectoryExit(~debug, @)]
                      /\ IF jobs = 1
                         THEN Propagate(r.raised)
                         ELSE UNCHANGED <<pc, raised, outcome, clone>>
                 ELSE /\ futS' = [futS EXCEPT ![i].st = "reading"]
                      /\ UNCHANGED <<worktree_dir, pc, raised, outcome, clone>>
    /\ UNCHANGED <<fetchVars, sdfVars, inputVars, compressed_db, branches_result, poolPVars,
                   arrival, slices_by_release, repository, notes_by_release, db,
                   called, runNo, prev>>

\* ZipSlices over the results in the order the calls finished.
ZipSlicesByArrival ==
    [i \in 1..NumReleases |->
        [release |-> relOrder[i], slices |-> futS[arrival[i]].result]]

\* Line 377: zip(releases, results).
ZipSlices ==
    [i \in 1..NumReleases |->
        [release |-> relOrder[i], slices |-> futS[i].result]]

\* What a release branch may hold: no slices/ directory, or one of SliceDirs.
BranchTrees ==
    { [is_dir |-> FALSE, dir |-> << >>] }
        \cup { [is_dir |-> TRUE, dir |-> d] : d \in SliceDirs }

\* Lines 337-348: what _get_slices returns from a worktree directory: the
\* files of slices/ when the branch was checked out and has that directory,
\* the empty mapping otherwise.
get_slices_result(wdir, tree) ==
    IF wdir = "checked_out" /\ tree.is_dir THEN tree.dir ELSE << >>

\* ReadSlices with the task itself storing its result in the shared mapping.
ReadSlicesIntoShared(i) ==
    /\ pc \in {"slices", "slices_abort"}
    /\ futS[i].st = "reading"
    /\ \E tree \in BranchTrees :
        LET r == relOrder[i]
            d == get_slices_result(worktree_dir[i], tree)
        IN  /\ repository[r].read =>
                   tree = [is_dir |-> repository[r].is_dir, dir |-> repository[r].dir]
            /\ repository' =
                 IF worktree_dir[i] = "checked_out"
                 THEN [repository EXCEPT ![r] =
                         [read |-> TRUE, is_dir |-> tree.is_dir, dir |-> tree.dir]]
                 ELSE repository
            /\ futS' = [futS EXCEPT ![i] =
                          [st |-> "done", result |-> d, exc |-> "none"]]
            /\ slices_by_release' =
                 Append(slices_by_release, [release |-> r, slices |-> d])
    /\ worktree_dir' = [worktree_dir EXCEPT ![i] = TemporaryDirectoryExit(~debug, @)]
    /\ arrival' = Append(arrival, i)
    /\ UNCHANGED <<fetchVars, sdfVars, inputVars, clone, worktree_add, compressed_db,
                   branches_result, poolPVars, lock, pc, outcome, raised, faults,
                   notes_by_release, db, called, runNo, prev>>

\* Lines 337-350: the slice files of the worktree are read and returned, and
\* the directory is removed on leaving the with block of line 317. On the
\* sequential path line 368 stores them under the release of the call.
ReadSlices(i) ==
    /\ pc \in {"slices", "slices_abort"}
    /\ futS[i].st = "reading"
    /\ \E tree \in BranchTrees :
        LET r == relOrder[i]
            d == get_slices_result(worktree_dir[i], tree)
        IN  /\ repository[r].read =>
                   tree = [is_dir |-> repository[r].is_dir, dir |-> repository[r].dir]
            /\ repository' =
                 IF worktree_dir[i] = "checked_out"
                 THEN [repository EXCEPT ![r] =
                         [read |-> TRUE, is_dir |-> tree.is_dir, dir |-> tree.dir]]
                 ELSE repository
            /\ futS' = [futS EXCEPT ![i] =
                          [st |-> "done", result |-> d, exc |-> "none"]]
            /\ slices_by_release' =
                 IF jobs = 1
                 THEN Append(slices_by_release, [release |-> r, slices |-> d])
                 ELSE slices_by_release
    /\ worktree_dir' = [worktree_dir EXCEPT ![i] = TemporaryDirectoryExit(~debug, @)]
    /\ arrival' = Append(arrival, i)
    /\ UNCHANGED <<fetchVars, sdfVars, inputVars, clone, worktree_add, compressed_db,
                   branches_result, poolPVars, lock, pc, outcome, raised, faults,
                   notes_by_release, db, called, runNo, prev>>

\* list(executor.map(...)) of line 376 reaches a future that raised.
SlicesObserveRaise ==
    /\ pc = "slices" /\ jobs # 1
    /\ FirstRaised(futS)
    /\ futS' = CancelPending(futS)
    /\ pc' = "slices_abort"
    /\ UNCHANGED <<fetchVars, sdfVars, inputVars, procVars, poolPVars, lock, arrival,
                   slices_by_release, outcome, raised, faults, repository,
                   notes_by_release, db, called, runNo, prev>>

\* The executor's __exit__ waits for the running calls; then the exception
\* leaves main.
SlicesShutdown ==
    /\ pc = "slices_abort"
    /\ Running(futS) = {}
    /\ Propagate(FirstException(futS))
    /\ UNCHANGED <<fetchVars, sdfVars, inputVars, wtVars, compressed_db, branches_result,
                   poolPVars, poolSVars, faults, repository, notes_by_release,
                   db, called, runNo, prev>>

\* SlicesByReleaseReturns without waiting for the calls: the mapping is built
\* from whatever the futures hold.
SlicesByReleaseReturnsWithoutJoin ==
    /\ pc = "slices"
    /\ slices_by_release' = IF jobs = 1 THEN slices_by_release ELSE ZipSlices
    /\ pc' = "notes"
    /\ UNCHANGED <<fetchVars, sdfVars, inputVars, procVars, poolPVars, futS, lock, arrival,
                   outcome, raised, faults, repository, notes_by_release, db,
                   called, runNo, prev>>

\* Lines 377-381: all calls are done; the mapping is returned.
SlicesByReleaseReturns ==
    /\ pc = "slices"
    /\ \A i \in 1..NumReleases : futS[i].st = "done"
    /\ slices_by_release' = IF jobs = 1 THEN slices_by_release ELSE ZipSlices
    /\ pc' = "notes"
    /\ UNCHANGED <<fetchVars, sdfVars, inputVars, procVars, poolPVars, futS, lock, arrival,
                   outcome, raised, faults, repository, notes_by_release, db,
                   called, runNo, prev>>

-----------------------------------------------------------------------------
(***************************************************************************)
(* _get_notes_by_release (lines 641-670). notes_by_release is kept as the  *)
(* set of its (release, package, notes) entries: a release is a key of the *)
(* dict exactly when one of its packages has an entry.                     *)
(***************************************************************************)
SliceEntries(sbr) ==
    { e \in (DOMAIN sbr) \X (1..Cardinality(PackageNames)) :
        e[2] \in DOMAIN sbr[e[1]].slices }

EntryRelease(sbr, e) == sbr[e[1]].release
EntryPackage(sbr, e) == sbr[e[1]].slices[e[2]][1]
EntryText(sbr, e) == sbr[e[1]].slices[e[2]][2]

\* The order of the two nested loops of lines 649 and 651, and of lines 836
\* and 850.
Before(e, f) == e[1] < f[1] \/ (e[1] = f[1] /\ e[2] < f[2])

\* Lines 652-658 for one slice: the notes, or the exception check_sdf raises.
SliceAnalysis(text) ==
    IF text \in FileTexts THEN AnalysedFiles[text]
    ELSE IF ~YamlLoad(text).ok
    THEN Returns(<< create_note("invalid YAML", YamlLoad(text).error) >>)
    ELSE check_sdf(YamlLoad(text).value, text)

\* Lines 652-660: the notes of one slice, << >> when it gets no entry.
NotesOfSlice(text) == SliceAnalysis(text).notes

\* The slices check_sdf raises on.
RaisingEntries(sbr) ==
    { e \in SliceEntries(sbr) : SliceAnalysis(EntryText(sbr, e)).raised # "none" }

GetNotesByRelease(sbr) ==
    { [release |-> EntryRelease(sbr, e), package |-> EntryPackage(sbr, e),
       notes |-> NotesOfSlice(EntryText(sbr, e))] :
        e \in { f \in SliceEntries(sbr) :
                  NotesOfSlice(EntryText(sbr, f)) # << >> } }

\* The whole pass. check_sdf is called outside the try block of line 652:
\* an exception it raises leaves _get_notes_by_release and main, at the
\* first slice it is raised for.
GetNotes ==
    /\ pc = "notes"
    /\ LET raising == RaisingEntries(slices_by_release)
           first == CHOOSE e \in raising : \A f \in raising : e = f \/ Before(e, f)
           reached == { e \in SliceEntries(slices_by_release) :
                          raising # {} => (e = first \/ Before(e, first)) }
       IN  /\ called' = [called EXCEPT !.check_sdf =
                           { <<EntryRelease(slices_by_release, e),
                               EntryPackage(slices_by_release, e)>> :
                               e \in { f \in reached :
                                         YamlLoad(EntryText(slices_by_release, f)).ok } }]
           /\ IF raising = {}
              THEN /\ notes_by_release' = GetNotesByRelease(slices_by_release)
                   /\ pc' = "write"
                   /\ UNCHANGED <<raised, outcome, clone>>
              ELSE /\ Propagate(SliceAnalysis(EntryText(slices_by_release, first)).raised)
                   /\ UNCHANGED notes_by_release
    /\ UNCHANGED <<fetchVars, sdfVars, inputVars, wtVars, compressed_db,
                   branches_result, poolPVars, poolSVars, faults, repository, db,
                   runNo, prev>>

-----------------------------------------------------------------------------
(***************************************************************************)
(* _write_db (lines 822-902) with db_connection (lines 776-786).           *)
(***************************************************************************)
NoDb == [exists |-> FALSE, slice |-> {}, release |-> {}, description |-> {},
         meta |-> {}]

HasNotes(nbr, r) == \E t \in nbr : t.release = r

\* notes_for_release.get(package, [])
NotesFor(nbr, r, package) ==
    IF \E t \in nbr : t.release = r /\ t.package = package
    THEN (CHOOSE t \in nbr : t.release = r /\ t.package = package).notes
    ELSE << >>

\* Lines 836-848: the slices the loop reaches; a release with no key in
\* notes_by_release is skipped.
WriteEntries(sbr, nbr) ==
    { e \in SliceEntries(sbr) : HasNotes(nbr, EntryRelease(sbr, e)) }

\* Line 851: the slices whose text yaml.safe_load raises on.
FailingEntries(sbr, nbr) ==
    { e \in WriteEntries(sbr, nbr) : ~YamlLoad(EntryText(sbr, e)).ok }

\* The slices inserted: all of them, or those before the first that raises.
InsertedEntries(sbr, nbr) ==
    { e \in WriteEntries(sbr, nbr) :
        \A f \in FailingEntries(sbr, nbr) : Before(e, f) }

\* SliceRow with packages_for_release looked up once, before the loop of
\* line 836, for the first release.
SliceRowOfFirstRelease(sbr, nbr, pbr, e) ==
    LET r == EntryRelease(sbr, e)
        package == EntryPackage(sbr, e)
        info == pbr[sbr[1].release][package]
    IN  [branch |-> r,
         package |-> package,
         version |-> IF info = NoPackage THEN <<"NULL", "">> ELSE info.version,
         component |-> IF info = NoPackage THEN "NULL" ELSE info.component,
         repo |-> IF info = NoPackage THEN "NULL" ELSE info.repo,
         section |-> IF info = NoPackage THEN <<"NULL", "">> ELSE info.section,
         definition |-> JsonDumps(YamlLoad(EntryText(sbr, e)).value),
         notes |-> NotesFor(nbr, r, package)]

\* Lines 850-881: the row of one slice.
SliceRow(sbr, nbr, pbr, e) ==
    LET r == EntryRelease(sbr, e)
        package == EntryPackage(sbr, e)
        info == pbr[r][package]
    IN  [branch |-> r,
         package |-> package,
         version |-> IF info = NoPackage THEN <<"NULL", "">> ELSE info.version,
         component |-> IF info = NoPackage THEN "NULL" ELSE info.component,
         repo |-> IF info = NoPackage THEN "NULL" ELSE info.repo,
         section |-> IF info = NoPackage THEN <<"NULL", "">> ELSE info.section,
         definition |-> JsonDumps(YamlLoad(EntryText(sbr, e)).value),
         notes |-> NotesFor(nbr, r, package)]

\* DescriptionKept with INSERT OR REPLACE: the last insert stays.
DescriptionKeptLast(inserts) == CHOOSE e \in inserts : \A f \in inserts : e = f \/ Before(f, e)

\* insert_into_description, INSERT OR IGNORE: of the inserts for one package
\* name the first one stays.
DescriptionKept(inserts) == CHOOSE e \in inserts : \A f \in inserts : e = f \/ Before(e, f)

\* Lines 883-884 over the inserted slices.
DescriptionRows(sbr, nbr, pbr) ==
    LET with(n) == { e \in InsertedEntries(sbr, nbr) :
                       /\ EntryPackage(sbr, e) = n
                       /\ pbr[EntryRelease(sbr, e)][n] # NoPackage }
    IN  { <<n, pbr[EntryRelease(sbr, DescriptionKept(with(n)))][n].description>> :
            n \in { m \in PackageNames : with(m) # {} } }

\* ReleaseRows skipping the releases whose mapping is empty.
ReleaseRowsSkippingEmpty(sbr) ==
    LET extracted == { sbr[i].release :
                         i \in { j \in DOMAIN sbr : sbr[j].slices # << >> } }
    IN  { [version |-> r, branch |-> r] : r \in extracted }
        \cup { [version |-> r, branch |-> -1] : r \in ALL_RELEASES \ extracted }

\* ReleaseRows without the loop of lines 891-893.
ReleaseRowsWithoutCatalog(sbr) ==
    { [version |-> sbr[i].release, branch |-> sbr[i].release] : i \in DOMAIN sbr }

\* Lines 886-893.
ReleaseRows(sbr) ==
    LET extracted == { sbr[i].release : i \in DOMAIN sbr }
    IN  { [version |-> r, branch |-> r] : r \in extracted }
        \cup { [version |-> r, branch |-> -1] : r \in ALL_RELEASES \ extracted }

\* Lines 896-897; the time of the run stands for datetime.now().
MetaRows(now) == { <<"last_update", now>>, <<"chisel_releases_url", "URL">> }

\* db_connection: what the connection commits when the block is left, with
\* or without an exception (`failed`).
Committed(rows, failed) == rows

\* The rows inserted by the time the with block of line 832 is left.
RowsInserted(sbr, nbr, pbr, now) ==
    LET failed == FailingEntries(sbr, nbr) # {}
    IN  [exists |-> TRUE,
         slice |-> { SliceRow(sbr, nbr, pbr, e) : e \in InsertedEntries(sbr, nbr) },
         description |-> DescriptionRows(sbr, nbr, pbr),
         release |-> IF failed THEN {} ELSE ReleaseRows(sbr),
         meta |-> IF failed THEN {} ELSE MetaRows(now)]

WriteDb ==
    /\ pc = "write"
    /\ called' = [called EXCEPT !.write = TRUE]
    /\ LET failed == FailingEntries(slices_by_release, notes_by_release) # {}
       IN  /\ db' = Committed(RowsInserted(slices_by_release, notes_by_release,
                                           packages_by_release, runNo), failed)
           /\ IF failed
              THEN Propagate("YAMLError")
              ELSE pc' = "compress" /\ UNCHANGED <<raised, outcome, clone>>
    /\ UNCHANGED <<fetchVars, sdfVars, inputVars, wtVars, compressed_db, branches_result,
                   poolPVars, poolSVars, faults, repository, notes_by_release,
                   runNo, prev>>

NoCompressedDb == [exists |-> FALSE, of |-> NoDb]

\* brotli_compress_file (lines 789-819): the file written holds the
\* compressed bytes of the snapshot.
brotli_compress_file(input) == [exists |-> TRUE, of |-> input]

\* CompressAndLog without the test of line 969.
CompressAlways ==
    /\ pc = "compress"
    /\ called' = [called EXCEPT !.compress = TRUE]
    /\ compressed_db' = brotli_compress_file(db)
    /\ pc' = "exit"
    /\ outcome' = "ok"
    /\ clone' = MainFinally(debug, clone)
    /\ UNCHANGED <<fetchVars, sdfVars, inputVars, wtVars, branches_result, poolPVars,
                   poolSVars, raised, faults, repository, notes_by_release, db,
                   runNo, prev>>

\* Lines 969-972 and the end of the __main__ block, with its finally clause.
CompressAndLog ==
    /\ pc = "compress"
    /\ called' = [called EXCEPT !.compress = compress]
    /\ compressed_db' = IF compress THEN brotli_compress_file(db) ELSE compressed_db
    /\ pc' = "exit"
    /\ outcome' = "ok"
    /\ clone' = MainFinally(debug, clone)
    /\ UNCHANGED <<fetchVars, sdfVars, inputVars, wtVars, branches_result, poolPVars,
                   poolSVars, raised, faults, repository, notes_by_release, db,
                   runNo, prev>>

\* Lines 969-970 when brotli_compress_file raises at lines 809-813: neither
\* the brotli library nor the brotli command is there, and nothing has been
\* written to the output path.
CompressRaises ==
    /\ pc = "compress"
    /\ compress
    /\ faults < MaxFaults
    /\ faults' = faults + 1
    /\ called' = [called EXCEPT !.compress = TRUE]
    /\ Propagate("ImportError")
    /\ UNCHANGED <<fetchVars, sdfVars, inputVars, wtVars, compressed_db, branches_result,
                   poolPVars, poolSVars, repository, notes_by_release, db,
                   runNo, prev>>

-----------------------------------------------------------------------------
(***************************************************************************)
(* The specifications.                                                     *)
(***************************************************************************)
NoPrev == [set |-> FALSE, jobs |-> 0, order |-> << >>, db |-> NoDb]
NotCalled == [distro_info |-> FALSE, get_packages |-> << >>, write |-> FALSE,
              compress |-> FALSE, check_sdf |-> {}]

\* No slice definition is being analysed on its own.
SdfIdle ==
    /\ sdf_pc = "idle"
    /\ slice_text = << >>
    /\ slice_json = PyNull
    /\ sdf_notes = << >>
    /\ sdf_raised = "none"

FetchIdle ==
    /\ gpc = "idle"
    /\ garg = [release |-> 1, component |-> "main", repo |-> ""]
    /\ attempt = 1
    /\ response = NoResponse
    /\ last_error = NoError
    /\ reqlog = << >>
    /\ gresult = NoResult

\* The snapshot file a run before this one left at args.db_path, and its
\* compressed file.
OldDb == [exists |-> TRUE, slice |-> {}, release |-> {}, description |-> {},
          meta |-> { <<"last_update", 0>> }]
OldCompressedDb == brotli_compress_file(OldDb)

\* The pools, the results and the temporary directories before main runs.
NothingRun ==
    /\ outcome = "running"
    /\ raised = "none"
    /\ faults = 0
    /\ futP = [k \in 1..NumTasks |-> NewFuture({})]
    /\ package_listings = << >>
    /\ packages_by_release = [r \in Releases |-> [n \in PackageNames |-> NoPackage]]
    /\ futS = [i \in 1..NumReleases |-> NewFuture(<< >>)]
    /\ lock = 0
    /\ arrival = << >>
    /\ slices_by_release = << >>
    /\ notes_by_release = {}
    /\ worktree_dir = [i \in 1..NumReleases |-> "none"]
    /\ worktree_add = [i \in 1..NumReleases |-> NotRun]

\* The state in which main enters _get_packages_by_release (line 959).
RunStart ==
    /\ pc = "packages"
    /\ NothingRun
    /\ called = [NotCalled EXCEPT !.distro_info = TRUE]
    /\ clone = "cloned"

\* The state in which the try block of line 1082 is entered.
ProcessStart ==
    /\ pc = "check_files"
    /\ NothingRun
    /\ called = NotCalled
    /\ clone = "none"
    /\ branches_result = NoBranchesResult

\* The chisel-releases repository and the distro-info catalog of a run.
RepositoryState ==
    /\ remote_branches = RepositoryBranches
    /\ version_to_release = VersionToRelease(ALL_RELEASES)

\* The part of the archive a whole run fetches in the model: two components
\* and two repos, every release with its manifests.
ArchiveState ==
    /\ components = SortedComponents
    /\ repos = SortedRepos
    /\ unpublished = {}

\* One run, without --force and --debug, with or without a snapshot file in
\* the way.
Init ==
    /\ FetchIdle
    /\ SdfIdle
    /\ jobs \in 1..MaxJobs
    /\ compress \in BOOLEAN
    /\ force = FALSE
    /\ debug = FALSE
    /\ relOrder \in Orders
    /\ RepositoryState
    /\ ArchiveState
    /\ ProcessStart
    /\ repository = [r \in Releases |-> Unread]
    /\ db \in {NoDb, OldDb}
    /\ compressed_db = NoCompressedDb
    /\ runNo = 1
    /\ prev = NoPrev

Next ==
    \/ CheckDbFiles
    \/ InitDistroInfo
    \/ InitDistroInfoRaises
    \/ MakeCloneDir
    \/ GitCloned
    \/ GitCloneFails
    \/ MainBranches
    \/ SeqGetPackages
    \/ SeqGetPackagesRaises
    \/ \E k \in 1..NumTasks : PoolStartPackages(k)
    \/ \E k \in 1..NumTasks : PoolPackagesReturn(k)
    \/ \E k \in 1..NumTasks : PoolPackagesRaise(k)
    \/ PackagesObserveRaise
    \/ PackagesShutdown
    \/ PackagesByReleaseReturns
    \/ \E i \in 1..NumReleases : SeqStartSlices(i)
    \/ \E i \in 1..NumReleases : PoolStartSlices(i)
    \/ \E i \in 1..NumReleases : AcquireLock(i)
    \/ \E i \in 1..NumReleases : WorktreeAdded(i)
    \/ \E i \in 1..NumReleases : WorktreeAddFails(i)
    \/ \E i \in 1..NumReleases : ReadSlices(i)
    \/ SlicesObserveRaise
    \/ SlicesShutdown
    \/ SlicesByReleaseReturns
    \/ GetNotes
    \/ WriteDb
    \/ CompressAndLog
    \/ CompressRaises

Spec == Init /\ [][Next]_vars

\* One run with --jobs 1, for every combination of --force, --debug and
\* --compress and of files already at the two output paths.
InitMain ==
    /\ FetchIdle
    /\ SdfIdle
    /\ jobs = 1
    /\ compress \in BOOLEAN
    /\ force \in BOOLEAN
    /\ debug \in BOOLEAN
    /\ relOrder \in Orders
    /\ RepositoryState
    /\ ArchiveState
    /\ ProcessStart
    /\ repository = [r \in Releases |-> Unread]
    /\ db \in {NoDb, OldDb}
    /\ compressed_db \in {NoCompressedDb, OldCompressedDb}
    /\ runNo = 1
    /\ prev = NoPrev

NextMain ==
    \/ CheckDbFiles
    \/ InitDistroInfo
    \/ InitDistroInfoRaises
    \/ MakeCloneDir
    \/ GitCloned
    \/ GitCloneFails
    \/ MainBranches
    \/ SeqGetPackages
    \/ SeqGetPackagesRaises
    \/ PackagesByReleaseReturns
    \/ \E i \in 1..NumReleases : SeqStartSlices(i)
    \/ \E i \in 1..NumReleases : AcquireLock(i)
    \/ \E i \in 1..NumReleases : WorktreeAdded(i)
    \/ \E i \in 1..NumReleases : WorktreeAddFails(i)
    \/ \E i \in 1..NumReleases : ReadSlices(i)
    \/ SlicesByReleaseReturns
    \/ GetNotes
    \/ WriteDb
    \/ CompressAndLog
    \/ CompressRaises

SpecMain == InitMain /\ [][NextMain]_vars

\* A second run of the program against the same repository and manifest
\* state, after a first run that completed: a new process (run with
\* --force, the snapshot of the first run being in place), with its own
\* iteration order and its own --jobs.
Rerun ==
    /\ pc = "exit" /\ outcome = "ok" /\ runNo = 1
    /\ prev' = [set |-> TRUE, jobs |-> jobs, order |-> relOrder, db |-> db]
    /\ runNo' = 2
    /\ jobs' \in 1..MaxJobs
    /\ relOrder' \in Orders
    /\ pc' = "check_files"
    /\ outcome' = "running"
    /\ raised' = "none"
    /\ futP' = [k \in 1..NumTasks |-> NewFuture({})]
    /\ package_listings' = << >>
    /\ packages_by_release' = [r \in Releases |-> [n \in PackageNames |-> NoPackage]]
    /\ futS' = [i \in 1..NumReleases |-> NewFuture(<< >>)]
    /\ arrival' = << >>
    /\ slices_by_release' = << >>
    /\ notes_by_release' = {}
    /\ called' = NotCalled
    /\ clone' = "none"
    /\ worktree_dir' = [i \in 1..NumReleases |-> "none"]
    /\ worktree_add' = [i \in 1..NumReleases |-> NotRun]
    /\ branches_result' = NoBranchesResult
    /\ UNCHANGED <<fetchVars, sdfVars, compress, force, debug, remote_branches,
                   version_to_release, components, repos, unpublished, faults,
                   lock, repository, db, compressed_db>>

\* The slices/ directories all of whose files decode.
DecodableDirs ==
    { d \in SliceDirs : \A j \in DOMAIN d : YamlLoad(d[j][2]).ok }

\* Two runs in which no git command and no manifest fetch fails, on a
\* repository all of whose slice files decode.
InitTwoRuns ==
    /\ FetchIdle
    /\ SdfIdle
    /\ jobs \in 1..MaxJobs
    /\ compress = FALSE
    /\ force = TRUE
    /\ debug = FALSE
    /\ relOrder \in Orders
    /\ RepositoryState
    /\ ArchiveState
    /\ ProcessStart
    /\ repository \in [Releases -> [read : {TRUE}, is_dir : {TRUE},
                                     dir : DecodableDirs]]
    /\ db = NoDb
    /\ compressed_db = NoCompressedDb
    /\ runNo = 1
    /\ prev = NoPrev

NextTwoRuns ==
    \/ CheckDbFiles
    \/ InitDistroInfo
    \/ MakeCloneDir
    \/ GitCloned
    \/ MainBranches
    \/ SeqGetPackages
    \/ \E k \in 1..NumTasks : PoolStartPackages(k)
    \/ \E k \in 1..NumTasks : PoolPackagesReturn(k)
    \/ PackagesByReleaseReturns
    \/ \E i \in 1..NumReleases : SeqStartSlices(i)
    \/ \E i \in 1..NumReleases : PoolStartSlices(i)
    \/ \E i \in 1..NumReleases : AcquireLock(i)
    \/ \E i \in 1..NumReleases : WorktreeAdded(i)
    \/ \E i \in 1..NumReleases : ReadSlices(i)
    \/ SlicesByReleaseReturns
    \/ GetNotes
    \/ WriteDb
    \/ CompressAndLog
    \/ Rerun

SpecTwoRuns == InitTwoRuns /\ [][NextTwoRuns]_vars

FetchArgs ==
    [release : Releases,
     component : {SortedComponents[i] : i \in 1..Len(SortedComponents)},
     repo : {SortedRepos[i] : i \in 1..Len(SortedRepos)}]

InitFetch ==
    /\ jobs = 1 /\ compress = FALSE /\ relOrder = [i \in 1..NumReleases |-> i]
    /\ force = FALSE /\ debug = FALSE
    /\ RepositoryState
    /\ ArchiveState
    /\ RunStart
    /\ branches_result = [kind |-> "returned", exc |-> "none", releases |-> Releases]
    /\ repository = [r \in Releases |-> Unread]
    /\ db = NoDb
    /\ compressed_db = NoCompressedDb
    /\ runNo = 1
    /\ prev = NoPrev
    /\ SdfIdle
    /\ gpc = "primary"
    /\ garg \in FetchArgs
    /\ attempt = 1
    /\ response = NoResponse
    /\ last_error = NoError
    /\ reqlog = <<>>
    /\ gresult = NoResult

NextFetch ==
    \/ \E status \in StatusCodes : PrimaryAnswers(status)
    \/ PrimaryFails
    \/ \E status \in StatusCodes : FallbackAnswers(status)
    \/ FallbackFails
    \/ AfterLoop

SpecFetch == InitFetch /\ [][NextFetch]_vars

\* The lines git may print for the remote branches: the release branches of
\* the catalog and one beyond it, a branch that is no release branch, a
\* release branch of another remote, and a release branch with a suffix.
CandidateLines ==
    { BranchLine(r) : r \in 0..(NumReleases + 1) }
        \cup { Quoted(<< "origin/", "main" >>),
               Quoted(<< "upstream/", "ubuntu-", "1" >>),
               Quoted(<< "origin/", "ubuntu-", "1", "-rc" >>) }

BranchLists == UNION { [1..n -> CandidateLines] : n \in 0..MaxBranches }

\* One call of _ubuntu_branches_in_chisel_releases, for every list of remote
\* branches and every catalog.
InitBranches ==
    /\ FetchIdle
    /\ SdfIdle
    /\ jobs = 1 /\ compress = FALSE /\ relOrder = [i \in 1..NumReleases |-> i]
    /\ force = FALSE /\ debug = FALSE
    /\ remote_branches \in BranchLists
    /\ version_to_release \in
         { VersionToRelease(catalog) : catalog \in SUBSET (0..(NumReleases + 1)) }
    /\ ArchiveState
    /\ pc = "branches"
    /\ NothingRun
    /\ called = [NotCalled EXCEPT !.distro_info = TRUE]
    /\ clone = "cloned"
    /\ branches_result = NoBranchesResult
    /\ repository = [r \in Releases |-> Unread]
    /\ db = NoDb
    /\ compressed_db = NoCompressedDb
    /\ runNo = 1
    /\ prev = NoPrev

NextBranches == CallUbuntuBranches

SpecBranches == InitBranches /\ [][NextBranches]_vars

\* One call of _get_packages_by_release in which every fetch returns, over
\* the four components and the four repos, the manifests of the last
\* release being all empty.
InitPackages ==
    /\ FetchIdle
    /\ SdfIdle
    /\ jobs \in 1..MaxJobs
    /\ compress = FALSE /\ force = FALSE /\ debug = FALSE
    /\ relOrder \in Orders
    /\ RepositoryState
    /\ components = AllComponents
    /\ repos = AllRepos
    /\ unpublished = {NumReleases}
    /\ RunStart
    /\ branches_result = [kind |-> "returned", exc |-> "none", releases |-> Releases]
    /\ repository = [r \in Releases |-> Unread]
    /\ db = NoDb
    /\ compressed_db = NoCompressedDb
    /\ runNo = 1
    /\ prev = NoPrev

NextPackages ==
    \/ SeqGetPackages
    \/ \E k \in 1..NumTasks : PoolStartPackages(k)
    \/ \E k \in 1..NumTasks : PoolPackagesReturn(k)
    \/ PackagesByReleaseReturns

SpecPackages == InitPackages /\ [][NextPackages]_vars

\* Lines 652-660 for one slice definition, check_sdf being run check by
\* check.
SafeLoad ==
    /\ sdf_pc = "load"
    /\ LET loaded == safe_load(slice_text)
       IN  IF loaded.ok
           THEN /\ slice_json' = loaded.value
                /\ sdf_pc' = "missing_copyright"
                /\ UNCHANGED sdf_notes
           ELSE /\ sdf_notes' = << create_note("invalid YAML", loaded.error) >>
                /\ sdf_pc' = "done"
                /\ UNCHANGED slice_json
    /\ UNCHANGED <<fetchVars, pipeVars, slice_text, sdf_raised>>

\* One check of check_sdf: its notes are added to `notes`, or its exception
\* leaves check_sdf.
RunCheck(at, result, next) ==
    /\ sdf_pc = at
    /\ IF result.raised # "none"
       THEN /\ sdf_pc' = "raised"
            /\ sdf_raised' = result.raised
            /\ UNCHANGED sdf_notes
       ELSE /\ sdf_pc' = next
            /\ sdf_notes' = sdf_notes \o result.notes
            /\ UNCHANGED sdf_raised
    /\ UNCHANGED <<fetchVars, pipeVars, slice_text, slice_json>>

\* The analysis of one slice definition, for every text of SdfTexts.
InitSdf ==
    /\ FetchIdle
    /\ jobs = 1 /\ compress = FALSE /\ force = FALSE /\ debug = FALSE
    /\ relOrder = [i \in 1..NumReleases |-> i]
    /\ RepositoryState
    /\ ArchiveState
    /\ pc = "notes"
    /\ NothingRun
    /\ called = [NotCalled EXCEPT !.distro_info = TRUE]
    /\ clone = "cloned"
    /\ branches_result = [kind |-> "returned", exc |-> "none", releases |-> Releases]
    /\ repository = [r \in Releases |-> Unread]
    /\ db = NoDb
    /\ compressed_db = NoCompressedDb
    /\ runNo = 1
    /\ prev = NoPrev
    /\ sdf_pc = "load"
    /\ slice_text \in SdfTexts
    /\ slice_json = PyNull
    /\ sdf_notes = << >>
    /\ sdf_raised = "none"

\* check_sdf runs its checks in the order of lines 622-634.
NextSdf ==
    \/ SafeLoad
    \/ RunCheck("missing_copyright", check_missing_copyright(slice_json),
                "double_glob")
    \/ RunCheck("double_glob", check_double_glob(slice_text), "excess_blank_lines")
    \/ RunCheck("excess_blank_lines", check_excess_blank_lines(slice_text),
                "architecture_comments")
    \/ RunCheck("architecture_comments", check_architecture_comments(slice_text),
                "unsorted_contents")
    \/ RunCheck("unsorted_contents", check_unsorted_contents(slice_json), "done")

SpecSdf == InitSdf /\ [][NextSdf]_vars

-----------------------------------------------------------------------------
(***************************************************************************)
(* The claims.                                                             *)
(***************************************************************************)
InAdd == { i \in 1..NumReleases : futS[i].st = "inAdd" }

\* C1: at most one _get_slices call is inside `git worktree add` at any
\* time, and a call inside it holds the clone lock.
C1_WorktreeAddUnderLock ==
    /\ Cardinality(InAdd) <= 1
    /\ \A i \in InAdd : lock = i

\* A call is inside git worktree add while another one waits for the lock.
C1_Witness ==
    \E i, j \in 1..NumReleases :
        futS[i].st = "inAdd" /\ futS[j].st = "tmpdir" /\ lock = i

\* C2: once a _get_packages or _get_slices call has raised, _write_db and
\* _compress_db are not invoked, no snapshot is written, and the run ends
\* with a non-zero status. (Every fault of the model but that of
\* brotli_compress_file, which comes after the write, is one of these or
\* comes before them.)
C2_FailureAbortsRun ==
    (faults > 0 /\ ~(called.compress /\ raised = "ImportError")) =>
        /\ ~called.write /\ ~called.compress
        /\ db = NoDb
        /\ pc \in {"packages", "packages_abort", "slices", "slices_abort", "exit"}
        /\ pc = "exit" => outcome = "failed"

\* A run with a pool ends after a call raised while other calls returned.
C2_Witness ==
    /\ pc = "exit" /\ faults > 0 /\ jobs # 1 /\ outcome = "failed"
    /\ \/ \E k \in 1..NumTasks : futP[k].st = "done"
       \/ \E i \in 1..NumReleases : futS[i].st = "done"

\* The package of name n the union keeps for release r, read off the manifest
\* state: that of the last (component, repo), in sorted order, listing n.
ExpectedPackage(r, n) ==
    LET lists(c, o) ==
            \E pk \in GetPackagesResult([release |-> r,
                        component |-> SortedComponents[c], repo |-> SortedRepos[o]]) :
                pk.name = n
        pairs == { co \in (DOMAIN SortedComponents) \X (DOMAIN SortedRepos) :
                     lists(co[1], co[2]) }
    IN  IF pairs = {} THEN NoPackage
        ELSE LET last == CHOOSE co \in pairs : \A x \in pairs : x = co \/ Before(x, co)
             IN  CHOOSE pk \in GetPackagesResult([release |-> r,
                        component |-> SortedComponents[last[1]],
                        repo |-> SortedRepos[last[2]]]) : pk.name = n

\* C3: whatever order the calls finish in, slices_by_release holds for each
\* release the files read for that release, and packages_by_release the
\* packages fetched for that release.
C3_ResultsKeyedByIdentity ==
    pc \in {"notes", "write", "compress"} =>
        /\ { slices_by_release[i].release : i \in DOMAIN slices_by_release } = Releases
        /\ Len(slices_by_release) = NumReleases
        /\ \A i \in DOMAIN slices_by_release :
              slices_by_release[i].slices
                  = repository[slices_by_release[i].release].dir
        /\ \A r \in Releases : \A n \in PackageNames :
              packages_by_release[r][n] = ExpectedPackage(r, n)

\* The pool's calls finished in another order than they were started in, on
\* branches with different slice files.
C3_Witness ==
    /\ pc = "notes" /\ jobs # 1
    /\ arrival[1] # 1
    /\ repository[relOrder[1]].dir # repository[relOrder[2]].dir

SameButLastUpdate(a, b) ==
    /\ a.slice = b.slice
    /\ a.release = b.release
    /\ a.description = b.description
    /\ { m \in a.meta : m[1] # "last_update" } = { m \in b.meta : m[1] # "last_update" }

SecondRunDone == runNo = 2 /\ pc = "exit" /\ outcome = "ok" /\ prev.set

\* C4: a run with jobs=1 and a run with jobs=2 on the same releases,
\* repository and manifests give snapshots with the same rows but last_update.
C4_JobsOneEqualsJobsTwo ==
    (SecondRunDone /\ {prev.jobs, jobs} = {1, 2}) => SameButLastUpdate(db, prev.db)

\* When both processes iterate the set `releases` in the same order the two
\* code paths do give the same rows.
JobsOneEqualsJobsTwoInSameOrder ==
    (SecondRunDone /\ {prev.jobs, jobs} = {1, 2} /\ prev.order = relOrder)
        => SameButLastUpdate(db, prev.db)

\* C5: two complete runs on the same repository and manifest state give
\* snapshots that differ only in last_update.
C5_Idempotent ==
    SecondRunDone => SameButLastUpdate(db, prev.db)

\* C6: when _write_db raises part-way, nothing of the run is committed.
C6_NothingCommittedOnFailure ==
    (pc = "exit" /\ called.write /\ raised # "none") =>
        /\ db.slice = {}
        /\ db.description = {}
        /\ db.release = {}
        /\ db.meta = {}

InvalidEntries ==
    { e \in SliceEntries(slices_by_release) :
        ~YamlLoad(EntryText(slices_by_release, e)).ok }

\* C7: with a slice whose text does not decode the run completes; the slice
\* has the single 'invalid YAML' note with the error text, check_sdf was not
\* called for it, and the snapshot has the rows of all other slices.
C7_InvalidYamlIsAbsorbed ==
    (pc = "exit" /\ called.write /\ InvalidEntries # {}) =>
        /\ outcome = "ok"
        /\ \A e \in InvalidEntries :
              /\ NotesFor(notes_by_release, EntryRelease(slices_by_release, e),
                          EntryPackage(slices_by_release, e))
                    = << create_note("invalid YAML", "ScannerError") >>
              /\ <<EntryRelease(slices_by_release, e),
                   EntryPackage(slices_by_release, e)>> \notin called.check_sdf
        /\ \A e \in SliceEntries(slices_by_release) \ InvalidEntries :
              \E row \in db.slice :
                  /\ row.branch = EntryRelease(slices_by_release, e)
                  /\ row.package = EntryPackage(slices_by_release, e)

PrimaryRequests == { i \in DOMAIN reqlog : reqlog[i].host = PrimaryHost }
FallbackRequests == { i \in DOMAIN reqlog : reqlog[i].host = FallbackHost }

\* C8: one _get_packages call makes at most 3 attempts, sends at most 3
\* requests to the primary host, and sends no request after a 200 response.
C8_AtMostThreeAttempts ==
    /\ attempt <= 3
    /\ Cardinality(PrimaryRequests) <= 3
    /\ \A i \in DOMAIN reqlog : reqlog[i].attempt <= 3
    /\ \A i \in DOMAIN reqlog : reqlog[i].status_code = 200 => i = Len(reqlog)

\* The third attempt is answered 200 and the call returns.
C8_Witness ==
    /\ gpc = "done" /\ gresult.kind = "returned"
    /\ Cardinality(PrimaryRequests) = 3

\* C9: in an attempt the fallback host is requested exactly when the primary
\* answered 404 in that attempt, at most once; a primary 404 followed by a
\* fallback 200 makes the call return the packages of the fallback's body.
C9_FallbackOn404 ==
    /\ \A i \in FallbackRequests :
          /\ i > 1
          /\ reqlog[i - 1].host = PrimaryHost
          /\ reqlog[i - 1].status_code = 404
          /\ reqlog[i - 1].attempt = reqlog[i].attempt
    /\ \A i \in PrimaryRequests :
          reqlog[i].status_code = 404 =>
              IF i = Len(reqlog) THEN gpc = "fallback"
              ELSE /\ reqlog[i + 1].host = FallbackHost
                   /\ reqlog[i + 1].attempt = reqlog[i].attempt
    /\ \A i, j \in FallbackRequests : reqlog[i].attempt = reqlog[j].attempt => i = j
    /\ (/\ gpc = "done"
        /\ reqlog # << >>
        /\ reqlog[Len(reqlog)].host = FallbackHost
        /\ reqlog[Len(reqlog)].status_code = 200)
       => /\ gresult.kind = "returned"
          /\ gresult.packages =
                ParsePackages(ManifestBody(FallbackHost, garg.release,
                                           garg.component, garg.repo),
                              garg.release, garg.component, garg.repo)
          /\ \A pk \in gresult.packages : pk.version[2] = HostTag(FallbackHost)

\* The primary answers 404, the fallback 200, and the call returns packages.
C9_Witness ==
    /\ gpc = "done" /\ gresult.kind = "returned" /\ gresult.packages # {}
    /\ Len(reqlog) >= 2
    /\ reqlog[Len(reqlog)].host = FallbackHost
    /\ reqlog[Len(reqlog) - 1].status_code = 404

\* C10: when the call raises, the error reported is the outcome of the last
\* attempt: its status code if it ended with a status, the network error if
\* it ended with a request exception.
C10_ReportsLastAttempt ==
    (gpc = "done" /\ gresult.kind = "raised") =>
        LET last == reqlog[Len(reqlog)]
        IN  IF last.status_code # 0
            THEN gresult.error = "status" /\ gresult.status_code = last.status_code
            ELSE gresult.error = "network"
                 /\ gresult.exc = RequestException(last.attempt)

\* The versions <version> of the lines that name a branch
\* origin/ubuntu-<version>.
NamedVersions ==
    { SubSeq(b, 3, Len(b)) :
        b \in { x \in { strip(remote_branches[i], {"'", " "}) :
                          i \in DOMAIN remote_branches } :
                  Len(x) >= 2 /\ x[1] = "origin/" /\ x[2] = "ubuntu-" } }

\* C11: _ubuntu_branches_in_chisel_releases returns exactly the catalog
\* releases of the versions named by the origin/ubuntu-<version> branches
\* when all of these versions are in the catalog, and raises otherwise.
C11_BranchesResolvedOrFatal ==
    branches_result.kind # "none" =>
        IF NamedVersions \subseteq DOMAIN version_to_release
        THEN /\ branches_result.kind = "returned"
             /\ branches_result.releases
                    = { version_to_release[v] : v \in NamedVersions }
        ELSE branches_result.kind = "raised"

\* The call raises on a list that names a release of the catalog, a version
\* that is not in the catalog, and a branch that is no release branch.
C11_Witness ==
    /\ branches_result.kind = "raised"
    /\ \E v \in NamedVersions : v \in DOMAIN version_to_release
    /\ \E v \in NamedVersions : v \notin DOMAIN version_to_release
    /\ \E i \in DOMAIN remote_branches :
          remote_branches[i] = Quoted(<< "origin/", "main" >>)

RunCompleted == pc = "exit" /\ raised = "none" /\ called.write

\* The releases whose branch was checked out and has no slices/ directory.
WithoutSlicesDir ==
    { r \in Releases : repository[r].read /\ ~repository[r].is_dir }

\* C12: a _get_slices call on a branch with no slices/ directory returns the
\* empty mapping; a run in which nothing else fails completes; and the
\* snapshot of a completed run has the release row of that release, with its
\* branch, and no slice row of that branch.
C12_MissingSlicesDirIsNotFatal ==
    /\ \A i \in 1..NumReleases :
          (futS[i].st # "pending" /\ relOrder[i] \in WithoutSlicesDir) =>
              /\ futS[i].st = "done"
              /\ futS[i].result = << >>
              /\ futS[i].exc = "none"
    /\ (pc = "exit" /\ faults = 0 /\ called.distro_info /\ InvalidEntries = {}
            /\ RaisingEntries(slices_by_release) = {}) =>
          RunCompleted
    /\ RunCompleted =>
          \A r \in WithoutSlicesDir :
              /\ \E i \in DOMAIN slices_by_release :
                    /\ slices_by_release[i].release = r
                    /\ slices_by_release[i].slices = << >>
              /\ [version |-> r, branch |-> r] \in db.release
              /\ \A row \in db.slice : row.branch # r

\* A run completes with a release that has no slices/ directory and a
\* release that has slice rows.
C12_Witness ==
    /\ RunCompleted
    /\ WithoutSlicesDir # {}
    /\ db.slice # {}

\* The calls whose git worktree add exited with a non-zero status.
FailedAdds ==
    { i \in 1..NumReleases :
        worktree_add[i].ran /\ worktree_add[i].returncode # 0 }

\* C13: a _get_slices call whose git worktree add exited with a non-zero
\* status has raised, whatever git wrote to stderr; the release has no
\* entry in slices_by_release, _write_db is not reached and the run ends
\* with a non-zero status.
C13_WorktreeAddFailureIsFatal ==
    \A i \in FailedAdds :
        /\ futS[i].st = "raised"
        /\ futS[i].exc \in {"GitError", "AssertionError"}
        /\ \A k \in DOMAIN slices_by_release :
              slices_by_release[k].release # relOrder[i]
        /\ pc \in {"slices", "slices_abort", "exit"}
        /\ ~called.write /\ db = NoDb
        /\ pc = "exit" =>
              /\ outcome = "failed"
              /\ \E j \in FailedAdds : raised = futS[j].exc

\* git worktree add fails with nothing on stderr in a run with a pool, after
\* another call returned its slices.
C13_Witness ==
    /\ pc = "exit" /\ jobs # 1
    /\ \E i \in FailedAdds : worktree_add[i].stderr = ""
    /\ \E j \in 1..NumReleases : futS[j].st = "done" /\ futS[j].result # << >>

\* C14: a _get_slices call that has returned, raised, or never started does
\* not hold the clone lock.
C14_LockReleasedOnEveryPath ==
    \A i \in 1..NumReleases :
        futS[i].st \in {"pending", "cancelled", "done", "raised"} => lock # i

\* After a call's git worktree add failed, another call holds the lock.
C14_Witness ==
    \E i, j \in 1..NumReleases :
        /\ i \in FailedAdds /\ futS[i].st = "raised"
        /\ futS[j].st = "inAdd" /\ lock = j

\* C15: when a run without --debug has ended, no temporary worktree
\* directory and no clone directory is left.
C15_TemporaryDirectoriesRemoved ==
    (pc = "exit" /\ ~debug) =>
        /\ clone \in {"none", "removed"}
        /\ \A i \in 1..NumReleases : worktree_dir[i] \in {"none", "removed"}

\* A run with a pool ended by a failing git worktree add, after another call
\* had checked out and read its worktree.
C15_Witness ==
    /\ pc = "exit" /\ ~debug /\ clone = "removed"
    /\ \E i \in FailedAdds : worktree_dir[i] = "removed"
    /\ \E j \in 1..NumReleases :
          /\ worktree_add[j].ran /\ worktree_add[j].returncode = 0
          /\ worktree_dir[j] = "removed"

\* C16: the clone lock is held only by a call inside git worktree add; a
\* call that reads slice files does not hold it.
C16_LockHeldOnlyDuringWorktreeAdd ==
    /\ lock # 0 => futS[lock].st = "inAdd"
    /\ \A i \in 1..NumReleases : futS[i].st = "reading" => lock # i

\* Two calls, for different releases, are reading slice files.
C16_Witness ==
    \E i, j \in 1..NumReleases :
        /\ i # j /\ relOrder[i] # relOrder[j]
        /\ futS[i].st = "reading" /\ futS[j].st = "reading"

\* The condition of the claim on the files in place when the process starts.
OutputConflict ==
    ~force /\ (db.exists \/ (compress /\ compressed_db.exists))

\* C17: from a start with an output conflict the process ends in its first
\* step: distro-info is not queried, nothing is cloned, no manifest is
\* requested, and the two files stay as they are.
C17_ConflictStopsBeforeAnyWork ==
    [][ (pc = "check_files" /\ OutputConflict) =>
            /\ pc' = "exit"
            /\ raised' = "FileExistsError"
            /\ db' = db /\ compressed_db' = compressed_db
            /\ ~called'.distro_info
            /\ clone' = "none"
            /\ \A k \in 1..NumTasks : futP'[k].st = "pending"
            /\ package_listings' = << >>
            /\ \A i \in 1..NumReleases : worktree_dir'[i] = "none" ]_vars

\* The run stops on the compressed file alone: --compress, no snapshot file.
C17_Witness ==
    /\ pc = "exit" /\ raised = "FileExistsError"
    /\ ~db.exists /\ compress /\ compressed_db = OldCompressedDb

\* C18: after a completed run the slice table has exactly one row for every
\* (release, package) of slices_by_release, and no other row.
C18_OneRowPerSlice ==
    RunCompleted =>
        /\ \A e \in SliceEntries(slices_by_release) :
              Cardinality({ row \in db.slice :
                              /\ row.branch = EntryRelease(slices_by_release, e)
                              /\ row.package = EntryPackage(slices_by_release, e) }) = 1
        /\ \A row \in db.slice :
              \E e \in SliceEntries(slices_by_release) :
                  /\ row.branch = EntryRelease(slices_by_release, e)
                  /\ row.package = EntryPackage(slices_by_release, e)

\* The text of the slice file of package n on the branch of release r.
TextOf(r, n) ==
    LET d == repository[r].dir
    IN  d[CHOOSE j \in DOMAIN d : d[j][1] = n][2]

\* C19: every slice row carries the version, component, repo and section of
\* the Package packages_by_release holds under the row's release and
\* package name (a Package of that release and name), NULL in the four
\* columns when it holds none, and the notes of the slice file of that
\* release and package.
C19_RowJoinsItsOwnPackageAndNotes ==
    \A row \in db.slice :
        LET pk == packages_by_release[row.branch][row.package]
        IN  /\ IF pk = NoPackage
               THEN /\ row.version = <<"NULL", "">> /\ row.component = "NULL"
                    /\ row.repo = "NULL" /\ row.section = <<"NULL", "">>
               ELSE /\ pk.release = row.branch /\ pk.name = row.package
                    /\ pk = ExpectedPackage(row.branch, row.package)
                    /\ row.version = pk.version /\ row.component = pk.component
                    /\ row.repo = pk.repo /\ row.section = pk.section
            /\ row.notes = NotesOfSlice(TextOf(row.branch, row.package))

\* A completed run with rows of two releases: a row with a Package and
\* notes, and a row of that package name in the other release with no
\* Package.
C19_Witness ==
    /\ RunCompleted
    /\ \E row1, row2, row3 \in db.slice :
          /\ row1.version = <<"NULL", "">> /\ row2.version # <<"NULL", "">>
          /\ row1.package = row2.package /\ row1.branch # row2.branch
          /\ row3.version # <<"NULL", "">> /\ row3.notes # << >>

\* The releases some slice was extracted for.
WithExtractedSlices ==
    { slices_by_release[i].release :
        i \in { j \in DOMAIN slices_by_release :
                  slices_by_release[j].slices # << >> } }

\* C20, as stated: after a completed run the release table has one row for
\* every release of the catalog; its branch is NULL when no slice was
\* extracted for the release and the release's branch otherwise.
C20_BranchNullWithoutSlices ==
    RunCompleted =>
        db.release =
            { [version |-> r, branch |-> r] : r \in WithExtractedSlices }
            \cup { [version |-> r, branch |-> -1] :
                     r \in ALL_RELEASES \ WithExtractedSlices }

\* C20, amended: after a completed run the release table has one row for
\* every release of the catalog; its branch is NULL when the repository has
\* no branch origin/ubuntu-<version> for the release and the release's
\* branch otherwise, also when no slice was extracted from that branch.
C20_BranchNullWithoutBranch ==
    RunCompleted =>
        /\ \A r \in ALL_RELEASES :
              Cardinality({ row \in db.release : row.version = r }) = 1
        /\ \A row \in db.release :
              /\ row.version \in ALL_RELEASES
              /\ row.branch = IF VersionOf(row.version) \in NamedVersions
                              THEN row.version ELSE -1

\* A completed run on a repository with a release branch no slice was
\* extracted from and a catalog release with no branch.
C20_Witness ==
    /\ RunCompleted
    /\ \E r \in Releases : r \notin WithExtractedSlices
    /\ \E r \in ALL_RELEASES : VersionOf(r) \notin NamedVersions

\* The slice rows of package n that carry package metadata.
MetadataRows(n) ==
    { row \in db.slice : row.package = n /\ row.component # "NULL" }

\* The release whose slice row of package n was inserted first: the loop of
\* line 836 follows the order of slices_by_release.
FirstMetadataRelease(n) ==
    LET at == { i \in DOMAIN slices_by_release :
                  \E row \in MetadataRows(n) :
                      row.branch = slices_by_release[i].release }
    IN  slices_by_release[CHOOSE i \in at : \A j \in at : i <= j].release

\* C21: the description table holds at most one row per package name; it
\* holds a row for every package name that has a slice row with package
\* metadata, and for no other name; the row is the one of the first insert
\* (the description of the Package of the first such slice row in insertion
\* order): later inserts for the name leave it unchanged.
C21_OneDescriptionPerPackage ==
    called.write =>
        /\ \A d, e \in db.description : d[1] = e[1] => d = e
        /\ \A row \in db.slice :
              row.component # "NULL" =>
                  \E d \in db.description : d[1] = row.package
        /\ \A d \in db.description :
              /\ MetadataRows(d[1]) # {}
              /\ d[2] = packages_by_release[FirstMetadataRelease(d[1])][d[1]].description

\* The snapshot of a run in which a package name was inserted twice, with
\* two different descriptions, and has one description row.
C21_Witness ==
    /\ called.write
    /\ \E n \in PackageNames :
          /\ \E row1, row2 \in MetadataRows(n) :
                /\ row1.branch # row2.branch
                /\ packages_by_release[row1.branch][n].description
                       # packages_by_release[row2.branch][n].description
          /\ Cardinality({ d \in db.description : d[1] = n }) = 1

\* Every _get_packages call of the cross product has returned.
AllManifestsFetched ==
    /\ Len(package_listings) = NumTasks
    /\ \A k \in 1..NumTasks : package_listings[k].args = Product(relOrder)[k]
    /\ jobs # 1 => \A k \in 1..NumTasks : futP[k].st = "done"

\* Every _get_slices call has returned and its result is in slices_by_release.
AllSlicesExtracted ==
    /\ \A i \in 1..NumReleases : futS[i].st = "done"
    /\ Len(slices_by_release) = NumReleases
    /\ \A i \in 1..NumReleases :
          /\ slices_by_release[i].release = relOrder[i]
          /\ slices_by_release[i].slices = futS[i].result

\* The static analysis pass went over every extracted slice: check_sdf was
\* called on it, or its text did not decode and it has the note saying so.
AllSlicesAnalysed ==
    \A e \in SliceEntries(slices_by_release) :
        LET r == EntryRelease(slices_by_release, e)
            n == EntryPackage(slices_by_release, e)
        IN  \/ <<r, n>> \in called.check_sdf
            \/ /\ ~YamlLoad(EntryText(slices_by_release, e)).ok
               /\ \E t \in notes_by_release :
                     /\ t.release = r /\ t.package = n
                     /\ t.notes[1].note = "invalid YAML"

\* C22: when _write_db is entered, and from then on, every manifest fetch of
\* the cross product and every slice extraction has completed, the static
\* analysis has gone over every extracted slice, and no worker task is
\* running.
C22_WriteAfterAllStages ==
    (pc = "write" \/ called.write) =>
        /\ AllManifestsFetched
        /\ AllSlicesExtracted
        /\ AllSlicesAnalysed
        /\ Running(futP) = {} /\ Running(futS) = {}

\* A run with a pool that wrote rows for slices check_sdf was called on.
C22_Witness ==
    /\ called.write /\ jobs >= 2
    /\ called.check_sdf # {}
    /\ db.slice # {}

\* The (release, component, repo) triples of the cross product.
Triples ==
    [release : Releases,
     component : { components[c] : c \in DOMAIN components },
     repo : { repos[o] : o \in DOMAIN repos }]

\* The package names of the mapping returned for release r.
KeySet(r) == { n \in PackageNames : packages_by_release[r][n] # NoPackage }

\* The package names of the results of the _get_packages calls of release r.
ResultNames(r) ==
    UNION { { pk.name : pk \in package_listings[k].packages } :
              k \in { j \in DOMAIN package_listings :
                        package_listings[j].args.release = r } }

\* C23: when _get_packages_by_release has returned, _get_packages was called
\* exactly once for each (release, component, repo) of the releases, the
\* four components and the four repos, sixteen calls for each release, and
\* the mapping of every release, also of one whose manifests are all empty,
\* has as its keys the union of the package names of the release's sixteen
\* results.
C23_OneFetchPerTripleAndUnion ==
    pc = "slices" =>
        /\ Len(components) = 4 /\ Len(repos) = 4
        /\ \A t \in Triples :
              Cardinality({ k \in DOMAIN called.get_packages :
                              called.get_packages[k] = t }) = 1
        /\ Len(called.get_packages) = Cardinality(Triples)
        /\ \A r \in Releases :
              /\ Cardinality({ k \in DOMAIN package_listings :
                                 package_listings[k].args.release = r }) = 16
              /\ \A k \in DOMAIN package_listings :
                    package_listings[k].packages
                        = GetPackagesResult(package_listings[k].args)
              /\ KeySet(r) = ResultNames(r)

\* The call has returned from a pool: one release has an empty mapping, and
\* another a name that only a manifest outside component main lists.
C23_Witness ==
    /\ pc = "slices" /\ jobs >= 2
    /\ \E r \in Releases : KeySet(r) = {}
    /\ \E r \in Releases : \E n \in KeySet(r) :
          \A k \in DOMAIN package_listings :
              (/\ package_listings[k].args.release = r
               /\ \E pk \in package_listings[k].packages : pk.name = n)
                  => package_listings[k].args.component # "main"

\* The slice-extraction calls that have been started.
StartedSlices == { i \in 1..NumReleases : futS[i].st # "pending" }

\* C24, as stated: with a pool of 2 or more, slice extraction and manifest
\* fetching overlap in some execution. An execution has the overlap exactly
\* when a slice-extraction task can be started in a state in which a
\* manifest fetch is in progress; the statement is that it can, in the
\* states in which _get_packages_by_release has a fetch in progress.
C24_FetchAndExtractionOverlap ==
    (jobs >= 2 /\ pc = "packages" /\ Running(futP) # {})
        => ENABLED (\E i \in 1..NumReleases : PoolStartSlices(i))

\* C24, amended: the two pools never overlap. No slice-extraction call has
\* been started while a manifest fetch is in progress or still to be made:
\* when the first one starts, every fetch of the cross product is done and
\* its pool has been shut down.
C24_PoolsNeverOverlap ==
    /\ ~(Running(futP) # {} /\ Running(futS) # {})
    /\ StartedSlices # {} =>
          /\ pc # "packages"
          /\ Len(package_listings) = NumTasks
          /\ jobs # 1 => \A k \in 1..NumTasks : futP[k].st = "done"

\* A pool of two slice-extraction tasks at work, after the fetch pool did
\* its work with two tasks at a time.
C24_Witness ==
    /\ jobs >= 2
    /\ Cardinality(Running(futS)) >= 2
    /\ \A k \in 1..NumTasks : futP[k].st = "done"

\* C25: in a run with a pool, a step of a running task changes its own
\* future and none of slices_by_release, package_listings and
\* packages_by_release; a step that writes package_listings or
\* packages_by_release is taken when every manifest fetch is done, and a
\* step that writes slices_by_release when every slice extraction is done,
\* no task of either pool being in progress.
C25_SharedCollectionsWrittenAfterJoin ==
    [][jobs # 1 =>
        /\ \A k \in DOMAIN futP :
              (futP[k].st = "running" /\ futP'[k] # futP[k]) =>
                  /\ \A j \in DOMAIN futP \ {k} : futP'[j] = futP[j]
                  /\ UNCHANGED <<package_listings, packages_by_release,
                                 slices_by_release>>
        /\ \A i \in DOMAIN futS :
              (i \in Running(futS) /\ futS'[i] # futS[i]) =>
                  /\ \A j \in DOMAIN futS \ {i} : futS'[j] = futS[j]
                  /\ UNCHANGED <<package_listings, packages_by_release,
                                 slices_by_release>>
        /\ (package_listings' # package_listings
              \/ packages_by_release' # packages_by_release) =>
                  /\ \A k \in DOMAIN futP : futP[k].st = "done"
                  /\ Running(futS) = {}
        /\ slices_by_release' # slices_by_release =>
              /\ \A i \in DOMAIN futS : futS[i].st = "done"
              /\ Running(futP) = {}
      ]_vars

\* A run with a pool whose three collections have been written.
C25_Witness ==
    /\ jobs >= 2 /\ pc = "notes"
    /\ Len(package_listings) = NumTasks
    /\ \E r \in Releases : KeySet(r) # {}
    /\ \E i \in DOMAIN slices_by_release : slices_by_release[i].slices # << >>


\* C26: check_sdf is total: for every definition that yaml.safe_load has
\* decoded (a document without a top-level slices map, an empty document
\* and a slice entry whose value is null included) it returns a list of
\* notes and no exception leaves it.
C26_CheckSdfIsTotal ==
    /\ sdf_pc # "raised"
    /\ sdf_raised = "none"
    /\ sdf_pc \notin {"load", "done"} =>
          check_sdf(slice_json, slice_text).raised = "none"


\* The entries of the slices map of a decoded definition, in file order.
EntriesOfSlices(data) ==
    IF data.kind = "dict" /\ HasKey(data, << "slices" >>)
          /\ ValueAt(data, << "slices" >>).kind = "dict"
    THEN ValueAt(data, << "slices" >>).items ELSE << >>

\* The keys of an entry's contents map and the items of its essential list,
\* << >> where the entry has none.
ContentsKeysOf(content) ==
    IF content.kind = "dict" /\ HasKey(content, << "contents" >>)
          /\ ValueAt(content, << "contents" >>).kind = "dict"
    THEN [i \in DOMAIN ValueAt(content, << "contents" >>).items |->
             ValueAt(content, << "contents" >>).items[i].key]
    ELSE << >>

EssentialsOf(content) ==
    IF content.kind = "dict" /\ HasKey(content, << "essential" >>)
          /\ ValueAt(content, << "essential" >>).kind = "list"
    THEN [i \in DOMAIN ValueAt(content, << "essential" >>).items |->
             ValueAt(content, << "essential" >>).items[i].value.str]
    ELSE << >>

\* A list of str is out of ascending order when some element is followed,
\* anywhere later, by a smaller one.
OutOfOrder(names) ==
    \E i, j \in DOMAIN names : i < j /\ ~StrLessEq(names[i], names[j])

\* The slice entries of a definition whose contents keys or essential items
\* are out of order.
OutOfOrderEntries(data) ==
    { i \in DOMAIN EntriesOfSlices(data) :
        \/ OutOfOrder(ContentsKeysOf(EntriesOfSlices(data)[i].value))
        \/ OutOfOrder(EssentialsOf(EntriesOfSlices(data)[i].value)) }

NotesNamed(notes, name) == { i \in DOMAIN notes : notes[i].note = name }

\* The text was decoded and check_unsorted_contents, the last check, has
\* been reached and left, one way or the other.
UnsortedChecked ==
    \/ sdf_pc = "done" /\ slice_json # PyNull
    \/ sdf_pc = "raised" /\ slice_json.kind = "dict"
          /\ check_missing_copyright(slice_json).raised = "none"

\* C27: the number of 'unsorted content' notes that check_sdf gives for a
\* definition is the number of its slice entries whose contents keys or
\* essential list are out of ascending order; a definition whose only slice
\* has the contents keys /b, /a and which has no copyright entry gets an
\* 'unsorted content' note and a 'missing copyright' note.
C27_OneUnsortedNotePerEntry ==
    /\ UnsortedChecked =>
          Cardinality(NotesNamed(sdf_notes, "unsorted content"))
              = Cardinality(OutOfOrderEntries(slice_json))
    /\ (sdf_pc \in {"done", "raised"} /\ slice_text = NotedText) =>
          /\ NotesNamed(sdf_notes, "unsorted content") # {}
          /\ NotesNamed(sdf_notes, "missing copyright") # {}


\* The lines of a text at which a run of three blank lines starts.
BlankRunStarts(text) ==
    { n \in 1..(Len(splitlines(text)) - 2) :
        \A k \in n..(n + 2) : IsBlankLine(splitlines(text)[k]) }

\* check_excess_blank_lines has been run on the text.
BlankLinesChecked ==
    \/ sdf_pc \in {"architecture_comments", "unsorted_contents"}
    \/ sdf_pc = "done" /\ slice_json # PyNull
    \/ sdf_pc = "raised" /\ check_missing_copyright(slice_json).raised = "none"

\* C28: check_excess_blank_lines returns one 'excess blank lines' note, and
\* no other note, when the text has three or more consecutive blank lines,
\* and no note otherwise, however many such runs there are and however long
\* they are; check_sdf passes that on.
C28_OneNoteForBlankRuns ==
    /\ check_excess_blank_lines(slice_text) =
          Returns(IF BlankRunStarts(slice_text) # {}
                  THEN << create_note("excess blank lines", "") >> ELSE << >>)
    /\ (BlankLinesChecked /\ sdf_pc # "raised") =>
          Cardinality(NotesNamed(sdf_notes, "excess blank lines"))
              = IF BlankRunStarts(slice_text) # {} THEN 1 ELSE 0

\* A text with two runs of blank lines, of three and of four lines, apart
\* from each other, has been analysed and has got one note.
C28_Witness ==
    /\ sdf_pc = "done" /\ slice_json # PyNull
    /\ \E m, n \in BlankRunStarts(slice_text) :
          /\ m + 3 < n
          /\ ~IsBlankLine(splitlines(slice_text)[m + 3])
          /\ n + 3 <= Len(splitlines(slice_text))
          /\ IsBlankLine(splitlines(slice_text)[n + 3])
    /\ Cardinality(NotesNamed(sdf_notes, "excess blank lines")) = 1

\* A text with three blank lines, no three of them consecutive, has been
\* analysed and has got no note.
C28_WitnessNone ==
    /\ sdf_pc = "done" /\ slice_json # PyNull
    /\ Cardinality({ n \in DOMAIN splitlines(slice_text) :
                        IsBlankLine(splitlines(slice_text)[n]) }) >= 3
    /\ BlankRunStarts(slice_text) = {}
    /\ NotesNamed(sdf_notes, "excess blank lines") = {}


\* check_double_glob has been run on the text.
DoubleGlobChecked ==
    \/ sdf_pc \in {"excess_blank_lines", "architecture_comments", "unsorted_contents"}
    \/ sdf_pc = "done" /\ slice_json # PyNull

\* Some key of the contents map of some slice entry contains **.
DoubleStarInContentsKey(data) ==
    \E i \in DOMAIN EntriesOfSlices(data) :
        \E k \in DOMAIN ContentsKeysOf(EntriesOfSlices(data)[i].value) :
            ContainsDoubleStar(ContentsKeysOf(EntriesOfSlices(data)[i].value)[k])

\* C29: the notes of check_sdf hold a 'double glob' note exactly when the
\* raw text contains ** or a key of the contents map of some slice
\* contains **.
C29_DoubleGlobInTextOrKey ==
    DoubleGlobChecked =>
        (NotesNamed(sdf_notes, "double glob") # {}
            <=> \/ ContainsDoubleStar(slice_text)
                \/ DoubleStarInContentsKey(slice_json))


\* C30: once _write_db has been called and has left its connection, no step
\* of the run changes the snapshot file; the compressed artifact changes
\* only in the step after a write that succeeded, only in a run with
\* --compress, and it becomes the compressed bytes of the snapshot as
\* _write_db left it.
C30_SnapshotImmutableAfterWrite ==
    [][/\ called.write => db' = db
       /\ compressed_db' # compressed_db =>
             /\ compress
             /\ called.write /\ raised = "none" /\ pc = "compress"
             /\ db' = db
             /\ compressed_db' = brotli_compress_file(db)
      ]_vars

\* A run with --compress over files of an earlier run has ended: the
\* snapshot is the one _write_db wrote and the artifact is made from it.
C30_Witness ==
    /\ pc = "exit" /\ outcome = "ok" /\ raised = "none"
    /\ compress /\ force
    /\ called.write /\ called.compress
    /\ db # OldDb /\ db.slice # {}
    /\ compressed_db = brotli_compress_file(db)
    /\ compressed_db # OldCompressedDb


RECURSIVE JsonLoads(_)
\* json.loads: the value a reader of the definition column decodes. The
\* names of an object are the str keys of the dict it gives.
JsonLoads(json) ==
    CASE json.kind = "null" -> PyNull
      [] json.kind = "string" -> PyString(json.str)
      [] json.kind = "number" -> PyInt(json.str)
      [] json.kind = "array" ->
            PyList([i \in DOMAIN json.items |->
                      [key |-> << >>, key_kind |-> "none",
                       value |-> JsonLoads(json.items[i].value)]])
      [] json.kind = "object" ->
            PyDict([i \in DOMAIN json.items |->
                      [key |-> json.items[i].name, key_kind |-> "str",
                       value |-> JsonLoads(json.items[i].value)]])

\* C31: for every slice row of the snapshot, decoding the JSON of the
\* definition column gives the value that yaml.safe_load gives for the text
\* of the slice file of the row's release and package.
C31_DefinitionRoundTrip ==
    \A row \in db.slice :
        JsonLoads(row.definition) = safe_load(TextOf(row.branch, row.package)).value


\* The calls whose temporary worktree directory is removed in this step.
Removing ==
    { i \in 1..NumReleases :
        worktree_dir[i] # "removed" /\ worktree_dir'[i] = "removed" }

\* C32: a _get_slices call removes its temporary worktree while it holds the
\* clone lock: no call removes its worktree while another call is inside
\* `git worktree add`.
C32_WorktreeRemovedUnderLock ==
    [][\A i \in Removing :
          /\ lock = i
          /\ InAdd \subseteq {i}
      ]_vars


\* The (component, repo) pairs whose manifest of release r lists the name n,
\* as positions in (main, multiverse, restricted, universe) and in
\* ('', backports, security, updates).
ListingPairs(r, n) ==
    { co \in (1..4) \X (1..4) :
        \E pk \in GetPackagesResult([release |-> r, component |-> AllComponents[co[1]],
                                     repo |-> AllRepos[co[2]]]) : pk.name = n }

\* The last of a set of pairs: component first, then repo.
LastPair(pairs) ==
    CHOOSE co \in pairs :
        \A x \in pairs : x[1] < co[1] \/ (x[1] = co[1] /\ x[2] <= co[2])

\* C33: of the manifests of one release that list a package name,
\* packages_by_release keeps the Package of the last (component, repo) in
\* the order of the sorted components, then of the sorted repos, whatever
\* --jobs is and whatever order the fetches finish in.
C33_LastPairWins ==
    pc = "slices" =>
        \A r \in Releases : \A n \in PackageNames :
            IF ListingPairs(r, n) = {}
            THEN packages_by_release[r][n] = NoPackage
            ELSE LET last == LastPair(ListingPairs(r, n))
                 IN  /\ packages_by_release[r][n].component = AllComponents[last[1]]
                     /\ packages_by_release[r][n].repo = AllRepos[last[2]]
                     /\ packages_by_release[r][n] \in
                           GetPackagesResult([release |-> r,
                                              component |-> AllComponents[last[1]],
                                              repo |-> AllRepos[last[2]]])

\* A pool has fetched the sixteen manifests of release 1: q, listed by (multiverse, backports) and by
\* (universe, ''), is kept from universe, and p, listed by (main, '') and by
\* (universe, security), from security.
C33_Witness ==
    /\ pc = "slices" /\ jobs >= 2
    /\ ListingPairs(1, "q") = { <<2, 2>>, <<4, 1>> }
    /\ packages_by_release[1]["q"].component = "universe"
    /\ packages_by_release[1]["q"].repo = ""
    /\ ListingPairs(1, "p") = { <<1, 1>>, <<4, 3>> }
    /\ packages_by_release[1]["p"].repo = "security"


\* C34: until _write_db is called no step of a run changes the snapshot
\* file or the compressed file, with or without --force: a run that ends
\* before the write stage leaves the files that were there as they were.
\* The snapshot changes only in _write_db and the compressed file only in
\* _compress_db.
C34_FilesKeptUntilWrite ==
    [][/\ ~called'.write => (db' = db /\ compressed_db' = compressed_db)
       /\ db' # db => pc = "write"
       /\ compressed_db' # compressed_db => pc = "compress"
       /\ (pc' = "exit" /\ ~called'.write) =>
             /\ db' \in {NoDb, OldDb}
             /\ compressed_db' \in {NoCompressedDb, OldCompressedDb}
      ]_vars

\* A run with --force and --compress over the files of an earlier run has
\* failed before the write stage: both files are the old ones.
C34_Witness ==
    /\ pc = "exit" /\ outcome = "failed"
    /\ force /\ compress
    /\ called.distro_info /\ ~called.write
    /\ db = OldDb
    /\ compressed_db = OldCompressedDb


\* The requests of the call that were answered with a status.
Answered == { i \in DOMAIN reqlog : reqlog[i].status_code # 0 }

\* C35: a _get_packages call that returns has received a response, the last
\* one it received had status 200 and was the answer to its last request,
\* and the set returned is parsed from the body of that response; a call
\* whose last response had another status raises and returns no package,
\* also when that response is followed by network errors only.
C35_OnlyStatus200IsDecoded ==
    gpc = "done" =>
        /\ gresult.kind = "returned" =>
              /\ Answered # {}
              /\ Len(reqlog) \in Answered
              /\ reqlog[Len(reqlog)].status_code = 200
              /\ response = Response(reqlog[Len(reqlog)].host, 200)
              /\ gresult.packages =
                    ParsePackages(ManifestBody(reqlog[Len(reqlog)].host, garg.release,
                                               garg.component, garg.repo),
                                  garg.release, garg.component, garg.repo)
        /\ (Answered # {}
              /\ \E i \in Answered :
                    /\ \A j \in Answered : j <= i
                    /\ reqlog[i].status_code # 200) =>
              /\ gresult.kind = "raised"
              /\ gresult.packages = {}

\* A call has ended whose first attempt was answered 404 by the primary
\* host and whose later requests all ended in network errors: the response
\* kept is the 404 and the call raises.
C35_Witness ==
    /\ gpc = "done"
    /\ Answered = {1}
    /\ reqlog[1].status_code = 404
    /\ Len(reqlog) >= 3
    /\ response.status_code = 404
    /\ gresult.kind = "raised" /\ gresult.packages = {}

\* One run for every pool size, with one iteration order of `releases` (the
\* order does not change which steps a run can take).
InitFair ==
    /\ Init
    /\ relOrder = CHOOSE o \in Orders : TRUE

\* The run of Spec under fair scheduling: a step the run can take is
\* eventually taken, by whichever thread (every git subprocess and every HTTP
\* request returns, and a runnable thread is eventually scheduled).
SpecFair == InitFair /\ [][Next]_vars /\ WF_vars(Next)

\* The _get_slices calls that have made their directory and wait at line 321.
WaitingForLock == { i \in 1..NumReleases : futS[i].st = "tmpdir" }

\* C36: under fair scheduling every run ends, in success or in failure, for
\* every pool size, and every _get_slices call that waits for the clone lock
\* comes to hold it: a call stops waiting only by taking the lock, and when
\* the run has ended no call waits and the lock is free.
C36_EveryRunTerminates ==
    /\ <>(pc = "exit")
    /\ [](pc = "exit" => (WaitingForLock = {} /\ LockFree))
    /\ [][\A i \in WaitingForLock : futS'[i].st # "tmpdir" =>
                                       (futS'[i].st = "inAdd" /\ lock' = i)]_vars

\* Two calls of a pool have made their directories while neither holds the
\* lock yet.
C36_Witness ==
    /\ jobs > 1
    /\ Cardinality(WaitingForLock) > 1
    /\ LockFree

=============================================================================
